---------------------------- MODULE Spec2Model ----------------------------
(***************************************************************************)
(* A model of the request wizard and the live-status tracking loop of      *)
(* slavarr_py (src/discord_app/discord_bot.py).                            *)
(*                                                                         *)
(* These parts of the program are modelled:                                *)
(*   - the selection session: the movie / series quality picker            *)
(*     (QualitySelect) and the series wizard (SeriesAddWizardView with its *)
(*     SeriesQualitySelect, SeasonMultiSelect and ConfirmSeriesAddButton); *)
(*   - the release check that follows an add from the quality picker       *)
(*     (maybe_offer_release_picker_for_movie / _for_series);               *)
(*   - a tracking view (TrackMovieView / TrackSeriesView) with its         *)
(*     background task _loop, start_auto_update, the StopTrackingButton    *)
(*     and the refresh buttons; and two such views side by side;           *)
(*   - the pick list of cached releases (ReleaseSelect);                   *)
(*   - the search commands /movie_add and /series_add with their selects,  *)
(*     and the pick from the movie select (MovieSelect);                   *)
(*   - the transfer client's RPC call (TransmissionClient._rpc);           *)
(*   - the pure functions _progress_bar and                                *)
(*     SonarrClient.pick_missing_aired_monitored_episode.                  *)
(*                                                                         *)
(* Python's None is modelled as 0 for ids: the code tests ids by truth     *)
(* value (`if not view.selected_quality_id`, `if view.existing_id`), which *)
(* treats None and 0 alike.  Percentages are kept in tenths of a percent,  *)
(* so that the 99.9 threshold is the integer 999.  Strings that the code   *)
(* builds, splits, parses or compares (option values, quality labels) are  *)
(* sequences of characters.                                                *)
(***************************************************************************)
EXTENDS Integers, Sequences, FiniteSets, TLC

VARIABLES
    \* ---- selection session (one QualitySelect or one SeriesAddWizardView)
    kind,                 \* "movie" | "series": QualitySelect.kind; "wizard": SeriesAddWizardView
    existing_id,          \* SeriesAddWizardView.existing_id (0 = None)
    seasons_source,       \* SeriesAddWizardView.seasons_source: sequence of season records
    selected_quality_id,  \* SeriesAddWizardView.selected_quality_id (0 = None)
    selected_seasons,     \* SeriesAddWizardView.selected_seasons
    quality_values,       \* SeriesQualitySelect.values: the option values last submitted
    season_values,        \* SeasonMultiSelect.values: the option values last submitted
    confirms,             \* submission callbacks run so far (QualitySelect / Confirm button)
    calls,                \* backend calls issued by the latest submission or pick callback, in order
    submits,              \* add / update calls issued to the backend over the session's life
    started,              \* tracking tasks created (asyncio.create_task) over the session's life
    msgs,                 \* the messages the latest callback sent to the user, in order
    expected,             \* the release check's expected_quality_label ("" before any check)
    releases,             \* the release check's local `releases`
    picker,               \* the option values of the pick list the release check offered (<<>>: no list)
    picked,               \* ReleaseSelect.values[0] of that pick list (empty before any pick)
    episodes,             \* QualitySelect.callback's local `eps` at the latest release check
    episode,              \* its local `ep`, as a sequence: <<>> for None, else <<ep>>
    \* ---- tracking view (TrackMovieView / TrackSeriesView) and its task _loop
    view_kind,            \* "none" | "movie" | "series"
    message_id,           \* view._message_id (0 = None)
    task,                 \* position of the task _loop
    it,                   \* _loop's local `it`
    stopped,              \* view._stopped
    emb,                  \* _loop's local `emb`: which embed the last status computation built
    done,                 \* _loop's local `done`
    obs,                  \* what the backends answered to the latest status computation
    edit_res,             \* how the loop's latest edit_message ended: "none" | "ok" | "failed"
    outcome,              \* why the task ended ("running" while it has not)
    queries,              \* status computations the loop has begun
    edits,                \* status-message edits the loop has attempted
    sleeps,               \* sleeps the loop has begun
    stop_edits,           \* edits the loop has attempted since view._stopped was set
    \* ---- the search commands /movie_add and /series_add
    cmd,                  \* the command that ran last: "none" | "movie_add" | "series_add"
    results,              \* its local `results`: the candidates the lookup returned
    coll,                 \* its locals already / already_tvdb, already_tmdb: ids held by the collection
    lib,                  \* its locals plex_already...: ids held by the media library
    options,              \* the options of the select it sent
    select_send,          \* how the send of its select ended: "none" before it
    chosen,               \* the id last picked from that select (0 before a pick)
    \* ---- one call of _progress_bar
    bar_pct,              \* its argument pct, in tenths of a percent
    bar_width,            \* its argument width
    bar,                  \* the string it returned (empty before the call)
    \* ---- the transfer client (TransmissionClient)
    _sid,                 \* its field _sid: the stored session id, None at first
    requests,             \* the HTTP requests of its latest _rpc call, in order
    rpc_result,           \* how that call ended: "none" before the first call
    rpc_calls,            \* the number of _rpc calls made
    \* ---- the buttons and the task bookkeeping of the followed tracking view
    refresh,              \* the latest "Refresh now": its outcome and what it did
    disabled,             \* item.disabled of the view's buttons
    stops,                \* the number of "Stop tracking" presses
    orphans,              \* tasks still running that view._task no longer refers to
    \* ---- tracking views that run side by side
    views                 \* one record per view: its fields and its task's locals

wizardVars  == <<kind, existing_id, seasons_source, selected_quality_id,
                 selected_seasons, quality_values, season_values>>
checkVars   == <<expected, releases, picker, picked, episodes, episode>>
commandVars == <<cmd, results, coll, lib, options, select_send, chosen>>
barVars     == <<bar_pct, bar_width, bar>>
rpcVars     == <<_sid, requests, rpc_result, rpc_calls>>
buttonVars  == <<refresh, disabled, stops, orphans>>
otherVars   == <<commandVars, barVars, rpcVars, buttonVars, views>>
sessionVars == <<wizardVars, confirms, calls, submits, started, msgs, checkVars,
                 otherVars>>
viewVars    == <<view_kind, message_id, task, it, stopped, emb, done, obs,
                 edit_res, outcome, queries, edits, sleeps, stop_edits>>
vars        == <<sessionVars, viewVars>>

---------------------------------------------------------------------------
(* Program constants *)

\* start_auto_update(..., max_iters: int = 30); every caller uses the default
max_iters == 30

\* `pct >= 99.9`, in tenths of a percent
DoneThreshold == 999

\* `top = releases[:25]`
PickLimit == 25

\* _progress_bar(pct, width: int = 20); every caller uses the default
DefaultWidth == 20

\* `for r in results[:10]`: the candidates whose existence is checked
CheckLimit == 10

\* `for r in results[:25]`: the candidates a select offers
SelectLimit == 25

\* Python's None where a value other than an id is expected: an optional value is a
\* sequence of no or one element
None == <<>>

---------------------------------------------------------------------------
(* Status computation: _render_movie_embed and _render_series_embed *)

ZeroStats == [have |-> 0, total |-> 0, pct |-> 0]

\* No status computation has been made yet
NoObs == [subject |-> "unread", hasFile |-> FALSE, stats |-> ZeroStats,
          queue |-> "unread", hasSize |-> FALSE, downloadId |-> FALSE,
          trans |-> "unread"]

\* Answers of the transfer backend (bot.transmission / get_by_hash) when it is asked:
\* not configured, the call raises, no such torrent, a torrent
TransAnswers == {"unconfigured", "error", "none", "torrent"}

\* What the movie backends can answer to one status computation.
\*   subject: get_movie_by_id raises / returns None (404) / returns the movie
\*   hasFile: bool(movie.get("movieFile"))
\*   queue:   get_queue raises / no entry has this movieId / an entry matches
\*   hasSize, downloadId: truth value of the matching entry's fields
\*   trans:   the transfer backend's answer, "unread" when it is not asked
MovieEnvs ==
    {[NoObs EXCEPT !.subject = s] : s \in {"error", "none"}}
    \cup {[NoObs EXCEPT !.subject = "found", !.hasFile = f, !.queue = q] :
            f \in BOOLEAN, q \in {"error", "nomatch"}}
    \cup {[NoObs EXCEPT !.subject = "found", !.hasFile = f, !.queue = "match",
                        !.hasSize = z] : f \in BOOLEAN, z \in BOOLEAN}
    \cup {[NoObs EXCEPT !.subject = "found", !.hasFile = f, !.queue = "match",
                        !.hasSize = z, !.downloadId = TRUE, !.trans = t] :
            f \in BOOLEAN, z \in BOOLEAN, t \in TransAnswers}

\* series["statistics"] as Sonarr may report it: episodeFileCount, totalEpisodeCount
\* and percentOfEpisodes (tenths of a percent; 0 also stands for an absent field,
\* which `or` treats like 0.0)
SeriesStats ==
    { [have |-> 0,   total |-> 0,    pct |-> 0],
      [have |-> 1,   total |-> 2,    pct |-> 500],
      [have |-> 2,   total |-> 2,    pct |-> 0],
      [have |-> 2,   total |-> 2,    pct |-> 1000],
      [have |-> 998, total |-> 1000, pct |-> 0],
      [have |-> 999, total |-> 1000, pct |-> 999] }

\* What the series backends can answer to one status computation
SeriesEnvs ==
    {[NoObs EXCEPT !.subject = s] : s \in {"error", "none"}}
    \cup {[NoObs EXCEPT !.subject = "found", !.stats = st, !.queue = q] :
            st \in SeriesStats, q \in {"error", "nomatch"}}
    \cup {[NoObs EXCEPT !.subject = "found", !.stats = st, !.queue = "match"] :
            st \in SeriesStats}
    \cup {[NoObs EXCEPT !.subject = "found", !.stats = st, !.queue = "match",
                        !.downloadId = TRUE, !.trans = t] :
            st \in SeriesStats, t \in TransAnswers}

Envs(k) == IF k = "movie" THEN MovieEnvs ELSE SeriesEnvs

Return(e, d) == [out |-> "return", emb |-> e, done |-> d]
Raise        == [out |-> "raise",  emb |-> "none", done |-> FALSE]

\* _render_movie_embed with the downloaded test moved after the queue branch
RenderMovie_QueueFirst(env) ==
    IF env.subject = "error" THEN Raise
    ELSE IF env.subject = "none" THEN Return("not_found", TRUE)
    ELSE IF env.queue = "error" THEN Raise
    ELSE IF env.queue = "match" THEN Return("downloading", FALSE)
    ELSE IF env.hasFile THEN Return("downloaded", TRUE)
    ELSE Return("queued", FALSE)

\* _render_movie_embed reporting the download as finished when the movie has no file
\* and no queue entry matches
RenderMovie_NoFileDone(env) ==
    IF env.subject = "error" THEN Raise
    ELSE IF env.subject = "none" THEN Return("not_found", TRUE)
    ELSE IF env.queue = "error" THEN Raise
    ELSE IF env.hasFile THEN Return("downloaded", TRUE)
    ELSE IF env.queue = "match" THEN Raise
    ELSE Return("downloaded", TRUE)

\* _render_movie_embed.  The transfer backend's answer only fills t_details (its
\* exceptions are swallowed).  With a matching queue entry and no file, the f-string
\* `{pct:.1f if pct is not None else 0:.1f}` has an invalid format spec and raises
\* (ValueError for a float pct, TypeError for None).
RenderMovie(env) ==
    IF env.subject = "error" THEN Raise
    ELSE IF env.subject = "none" THEN Return("not_found", TRUE)
    ELSE IF env.queue = "error" THEN Raise
    ELSE IF env.hasFile THEN Return("downloaded", TRUE)
    ELSE IF env.queue = "match" THEN Raise
    ELSE Return("queued", FALSE)

\* pct = stats.get("percentOfEpisodes") or (100.0 * have / total if total else 0.0)
Pct(st) ==
    IF st.pct # 0 THEN st.pct
    ELSE IF st.total # 0 THEN (1000 * st.have) \div st.total
    ELSE 0

\* pct >= 99.9
NearlyComplete(st) == Pct(st) >= DoneThreshold

\* _render_series_embed answering done = False for a series that is not found
RenderSeries_NotFoundGoesOn(env) ==
    IF env.subject = "error" THEN Raise
    ELSE IF env.subject = "none" THEN Return("text_not_found", FALSE)
    ELSE IF env.queue = "error" THEN Raise
    ELSE IF env.queue = "match" THEN Return("downloading", FALSE)
    ELSE IF NearlyComplete(env.stats) THEN Return("complete", TRUE)
    ELSE Return("idle", FALSE)

\* _render_series_embed.  A series that is not found returns a plain string in place
\* of an embed, with done = True.
RenderSeries(env) ==
    IF env.subject = "error" THEN Raise
    ELSE IF env.subject = "none" THEN Return("text_not_found", TRUE)
    ELSE IF env.queue = "error" THEN Raise
    ELSE IF env.queue = "match" THEN Return("downloading", FALSE)
    ELSE IF NearlyComplete(env.stats) THEN Return("complete", TRUE)
    ELSE Return("idle", FALSE)

Render(k, env) == IF k = "movie" THEN RenderMovie(env) ELSE RenderSeries(env)

---------------------------------------------------------------------------
(* The tracking task: start_auto_update._loop *)

\* The counters queries, edits and sleeps observe the loop; they stop counting one
\* above max_iters
Count(n) == IF n > max_iters THEN n ELSE n + 1

\* `while it < max_iters`: the flag is not looked at
LoopCond_IgnoresStop == it < max_iters

\* `while it <= max_iters and not self._stopped`
LoopCond_OffByOne == it <= max_iters /\ ~stopped

\* `while it < max_iters and not self._stopped`
LoopCond == it < max_iters /\ ~stopped

\* The while test; when it passes the status computation begins
LoopTest ==
    /\ task = "test"
    /\ IF LoopCond
         THEN /\ task' = "render"
              /\ queries' = Count(queries)
              /\ UNCHANGED outcome
         ELSE /\ task' = "returned"
              /\ outcome' = IF stopped THEN "cancelled" ELSE "exhausted"
              /\ UNCHANGED queries
    /\ UNCHANGED <<sessionVars, view_kind, message_id, it, stopped, emb, done,
                   obs, edit_res, edits, sleeps, stop_edits>>

\* emb, done = await _render_..._embed(...): an exception ends the task
LoopRender ==
    /\ task = "render"
    /\ \E env \in Envs(view_kind) :
         LET r == Render(view_kind, env) IN
           /\ obs' = env
           /\ IF r.out = "raise"
                THEN /\ task' = "raised"
                     /\ outcome' = "exception"
                     /\ UNCHANGED <<emb, done>>
                ELSE /\ task' = "edit"
                     /\ emb' = r.emb
                     /\ done' = r.done
                     /\ UNCHANGED outcome
    /\ UNCHANGED <<sessionVars, view_kind, message_id, it, stopped, edit_res,
                   queries, edits, sleeps, stop_edits>>

\* await interaction.followup.edit_message(...) is attempted: the observers count it
EditAttempted ==
    /\ edits' = Count(edits)
    /\ stop_edits' = IF stopped THEN Count(stop_edits) ELSE stop_edits

\* The edit failed and the handler is `pass`: the loop goes on as after a success
EditFailed_Ignored ==
    /\ task = "edit"
    /\ edit_res' = "failed"
    /\ EditAttempted
    /\ IF done
         THEN /\ task' = "returned"
              /\ outcome' = "done"
              /\ UNCHANGED <<it, sleeps>>
         ELSE /\ it' = it + 1
              /\ task' = "sleep"
              /\ sleeps' = Count(sleeps)
              /\ UNCHANGED outcome
    /\ UNCHANGED <<sessionVars, view_kind, message_id, stopped, emb, done, obs,
                   queries>>

\* edit_message raises: `except Exception: return`
EditFailed ==
    /\ task = "edit"
    /\ edit_res' = "failed"
    /\ EditAttempted
    /\ task' = "returned"
    /\ outcome' = "edit_failed"
    /\ UNCHANGED <<sessionVars, view_kind, message_id, it, stopped, emb, done,
                   obs, queries, sleeps>>

\* After a successful edit the loop sleeps without looking at `done`
EditOk_IgnoresDone ==
    /\ task = "edit"
    /\ edit_res' = "ok"
    /\ EditAttempted
    /\ it' = it + 1
    /\ task' = "sleep"
    /\ sleeps' = Count(sleeps)
    /\ UNCHANGED <<sessionVars, view_kind, message_id, stopped, emb, done, obs,
                   outcome, queries>>

\* After a successful edit `it` is not advanced
EditOk_NoIncrement ==
    /\ task = "edit"
    /\ edit_res' = "ok"
    /\ EditAttempted
    /\ IF done
         THEN /\ task' = "returned"
              /\ outcome' = "done"
              /\ UNCHANGED <<it, sleeps>>
         ELSE /\ it' = it
              /\ task' = "sleep"
              /\ sleeps' = Count(sleeps)
              /\ UNCHANGED outcome
    /\ UNCHANGED <<sessionVars, view_kind, message_id, stopped, emb, done, obs,
                   queries>>

\* edit_message succeeds: `if done: return`, else `it += 1` and the sleep begins
EditOk ==
    /\ task = "edit"
    /\ edit_res' = "ok"
    /\ EditAttempted
    /\ IF done
         THEN /\ task' = "returned"
              /\ outcome' = "done"
              /\ UNCHANGED <<it, sleeps>>
         ELSE /\ it' = it + 1
              /\ task' = "sleep"
              /\ sleeps' = Count(sleeps)
              /\ UNCHANGED outcome
    /\ UNCHANGED <<sessionVars, view_kind, message_id, stopped, emb, done, obs,
                   queries>>

\* await asyncio.sleep(interval_sec) returns
LoopWake ==
    /\ task = "sleep"
    /\ task' = "test"
    /\ UNCHANGED <<sessionVars, view_kind, message_id, it, stopped, emb, done,
                   obs, edit_res, outcome, queries, edits, sleeps, stop_edits>>

LoopStep == LoopTest \/ LoopRender \/ EditFailed \/ EditOk \/ LoopWake

\* "Stop tracking" presses in one run
MaxStops == 2

\* The messages a call of start_auto_update may be given: the first call gets the
\* message the view was sent with (id 1), as in the callbacks that build a view
Messages == IF task = "none" THEN {1} ELSE {1, 2}

\* No button of the view has been pressed
NoRefresh == [queries |-> 0, edits |-> 0]

\* The positions of a task that has not finished: `not self._task.done()`
Running == {"test", "render", "edit", "sleep"}

\* What the buttons and start_auto_update leave alone of the session
ViewFrame ==
    UNCHANGED <<wizardVars, confirms, calls, submits, started, checkVars,
                commandVars, barVars, rpcVars, views>>

\* StopTrackingButton.callback with the flag toggled
StopTracking_Toggles ==
    /\ view_kind # "none"
    /\ stops < MaxStops
    /\ stops' = stops + 1
    /\ stopped' = ~stopped
    /\ disabled' = TRUE
    /\ \E ok \in BOOLEAN : msgs' = IF ok THEN <<"tracking_stopped">> ELSE <<>>
    /\ ViewFrame
    /\ UNCHANGED <<refresh, orphans>>
    /\ UNCHANGED <<view_kind, message_id, task, it, emb, done, obs, edit_res,
                   outcome, queries, edits, sleeps, stop_edits>>

\* StopTrackingButton.callback: the flag is set and the buttons are disabled before
\* the view is re-sent; when edit_original_response raises, the confirmation is not
\* sent.  The buttons of a client that was not re-rendered can still be pressed.
StopTracking ==
    /\ view_kind # "none"
    /\ stops < MaxStops
    /\ stops' = stops + 1
    /\ stopped' = TRUE
    /\ disabled' = TRUE
    /\ \E ok \in BOOLEAN : msgs' = IF ok THEN <<"tracking_stopped">> ELSE <<>>
    /\ ViewFrame
    /\ UNCHANGED <<refresh, orphans>>
    /\ UNCHANGED <<view_kind, message_id, task, it, emb, done, obs, edit_res,
                   outcome, queries, edits, sleeps, stop_edits>>

\* What a status computation of the view's kind can come to, over all the answers of
\* the backends
Renders(k) == {Render(k, env) : env \in Envs(k)}

\* What a "Refresh now" did: its status computations and its edits of the tracked
\* message
Refreshed(q, e) == [queries |-> q, edits |-> e]

\* A "Refresh now" that runs one round of the loop's body: it edits and advances `it`
RefreshButton_CountsAsIteration ==
    /\ view_kind # "none"
    /\ \E r \in Renders(view_kind) :
         IF r.out = "raise"
           THEN /\ refresh' = Refreshed(1, 0)
                /\ UNCHANGED it
           ELSE /\ refresh' = Refreshed(1, 1)
                /\ it' = IF it >= max_iters THEN it ELSE it + 1
    /\ ViewFrame
    /\ UNCHANGED <<msgs, disabled, stops, orphans>>
    /\ UNCHANGED <<view_kind, message_id, task, stopped, emb, done, obs,
                   edit_res, outcome, queries, edits, sleeps, stop_edits>>

\* RefreshMovieButton.callback / RefreshSeriesButton.callback: one status computation
\* (an exception of it leaves the callback), then one edit of the tracked message
\* when the view knows its id (whether it succeeds or fails is passed over), else the
\* status is sent as a new message.  A series that is not found yields a string,
\* which cannot be sent as an embed.
RefreshButton ==
    /\ view_kind # "none"
    /\ \E r \in Renders(view_kind) :
         IF r.out = "raise"
           THEN /\ refresh' = Refreshed(1, 0)
                /\ UNCHANGED msgs
           ELSE IF message_id # 0
             THEN /\ refresh' = Refreshed(1, 1)
                  /\ UNCHANGED msgs
             ELSE /\ refresh' = Refreshed(1, 0)
                  /\ msgs' = IF r.emb = "text_not_found" THEN msgs
                                                         ELSE <<"status">>
    /\ ViewFrame
    /\ UNCHANGED <<disabled, stops, orphans>>
    /\ UNCHANGED viewVars

\* The task start_auto_update creates: a new _loop with its own locals, observed
\* from its beginning
NewTask ==
    /\ task' = "test"
    /\ it' = 0
    /\ emb' = "none"
    /\ done' = FALSE
    /\ obs' = NoObs
    /\ edit_res' = "none"
    /\ outcome' = "running"
    /\ queries' = 0
    /\ edits' = 0
    /\ sleeps' = 0
    /\ stop_edits' = 0

\* start_auto_update without the test of self._task: a task is created on every call
start_auto_update_NoGuard ==
    /\ view_kind # "none"
    /\ \E m \in Messages : message_id' = m
    /\ orphans' = IF task \in Running THEN orphans + 1 ELSE orphans
    /\ NewTask
    /\ ViewFrame
    /\ UNCHANGED <<msgs, refresh, disabled, stops>>
    /\ UNCHANGED <<view_kind, stopped>>

\* TrackMovieView.start_auto_update / TrackSeriesView.start_auto_update on a view
\* that exists: the message id is stored first; the call returns when the view has a
\* task that has not finished, else it creates one
start_auto_update ==
    /\ view_kind # "none"
    /\ \E m \in Messages : message_id' = m
    /\ IF task \in Running
         THEN UNCHANGED <<task, it, emb, done, obs, edit_res, outcome, queries,
                          edits, sleeps, stop_edits>>
         ELSE NewTask
    /\ ViewFrame
    /\ UNCHANGED <<msgs, refresh, disabled, stops, orphans>>
    /\ UNCHANGED <<view_kind, stopped>>

---------------------------------------------------------------------------
(* Bounds of the model *)

\* Quality profiles offered by the backend: ids 1..NumProfiles
NumProfiles == 2

\* Seasons of the series: seasons_source lists seasons 1..n for some n <= MaxSeason
MaxSeason == 2

\* Submission callbacks (QualitySelect selections, Confirm presses) per session
MaxConfirms == 2

\* Releases a backend has cached for one subject
MaxReleases == 2

\* Episodes in the list get_episode_list returns
MaxEpisodes == 2

\* Candidates a lookup (search_movies / search_series) returns
MaxResults == 2

---------------------------------------------------------------------------
(* Option values and labels.  A string is a sequence of characters. *)

Digits == <<"0", "1", "2", "3", "4", "5", "6", "7", "8", "9">>

RECURSIVE str(_)
\* str(n) of a natural number: its decimal digits
str(n) == IF n < 10 THEN <<Digits[n + 1]>>
          ELSE str(n \div 10) \o <<Digits[(n % 10) + 1]>>

\* v.isdigit(): not empty and digits only
isdigit(v) == v # <<>> /\ \A i \in DOMAIN v : \E d \in DOMAIN Digits : Digits[d] = v[i]

DigitValue(c) == (CHOOSE d \in DOMAIN Digits : Digits[d] = c) - 1

RECURSIVE int(_)
\* int(v) of a string of digits
int(v) == IF Len(v) = 1 THEN DigitValue(v[1])
          ELSE 10 * int(SubSeq(v, 1, Len(v) - 1)) + DigitValue(v[Len(v)])

\* raw.split("|", 1): the parts before and after the first bar
split(raw) ==
    LET bars == {i \in DOMAIN raw : raw[i] = "|"}
        k    == CHOOSE i \in bars : \A j \in bars : i <= j
    IN  IF bars = {} THEN <<raw>>
        ELSE <<SubSeq(raw, 1, k - 1), SubSeq(raw, k + 1, Len(raw))>>

\* label.lower(), for the letters that occur in quality names
lower(label) ==
    [i \in DOMAIN label |->
        CASE label[i] = "H" -> "h"
          [] label[i] = "D" -> "d"
          [] label[i] = "S" -> "s"
          [] label[i] = "U" -> "u"
          [] OTHER -> label[i]]

---------------------------------------------------------------------------
(* The search commands: movie_add, series_add, MovieSelect and SeriesSelect *)

\* The id sets of a search command before any id is added to them
NoIds == [tvdb |-> {}, tmdb |-> {}]

\* seq[:n]
Slice(seq, n) == SubSeq(seq, 1, IF Len(seq) < n THEN Len(seq) ELSE n)

\* The i-th candidate of a lookup with the ids the backend gave it (0 = None, "" for
\* no imdbId) and with what the collection (get_existing_by_tmdb /
\* get_existing_by_ids) and the media library (movie_exists / series_exists) answer
\* when they are asked about it; the library is "unconfigured" when bot.plex is None
Results(k, i, plexOn) ==
    LET ids == IF k = "movie"
                 THEN { [tvdbId |-> 0, tmdbId |-> i, imdbId |-> <<"t", "t">>],
                        [tvdbId |-> 0, tmdbId |-> 0, imdbId |-> <<"t", "t">>],
                        [tvdbId |-> 0, tmdbId |-> 0, imdbId |-> <<>>] }
                 ELSE { [tvdbId |-> v, tmdbId |-> m, imdbId |-> <<>>] :
                          v \in {0, i}, m \in {0, i} }
    IN  { [tvdbId |-> r.tvdbId, tmdbId |-> r.tmdbId, imdbId |-> r.imdbId,
           held |-> h, plex |-> x] :
            r \in ids, h \in {"yes", "no", "error"},
            x \in (IF plexOn THEN {"yes", "no", "error"} ELSE {"unconfigured"}) }

RECURSIVE ResultLists(_, _, _)
\* The lists of n candidates a lookup may return
ResultLists(k, n, plexOn) ==
    IF n = 0 THEN {<<>>}
    ELSE {Append(l, r) : l \in ResultLists(k, n - 1, plexOn),
                         r \in Results(k, n, plexOn)}

\* movie_add's loop over results[:10]: already and plex_already.  The collection is
\* asked when the candidate has a tmdbId, the library when it is configured and the
\* candidate has a tmdbId or an imdbId; an answer that raises adds nothing.
MovieChecks(res) ==
    LET checked == Slice(res, CheckLimit)
    IN  [coll |-> [tvdb |-> {},
                   tmdb |-> {checked[i].tmdbId : i \in
                               {j \in DOMAIN checked :
                                  /\ checked[j].tmdbId # 0
                                  /\ checked[j].held = "yes"}}],
         lib  |-> [tvdb |-> {},
                   tmdb |-> {checked[i].tmdbId : i \in
                               {j \in DOMAIN checked :
                                  /\ checked[j].tmdbId # 0 \/ checked[j].imdbId # <<>>
                                  /\ checked[j].plex = "yes"
                                  /\ checked[j].tmdbId # 0}}]]

\* series_add's loop over results[:10]: already_tvdb, already_tmdb,
\* plex_already_tvdb and plex_already_tmdb.  The collection is always asked, the
\* library when it is configured and the candidate has an id; an id is added when it
\* is set.
SeriesChecks(res) ==
    LET checked == Slice(res, CheckLimit)
        held    == {j \in DOMAIN checked : checked[j].held = "yes"}
        inPlex  == {j \in DOMAIN checked :
                      /\ checked[j].tvdbId # 0 \/ checked[j].tmdbId # 0
                      /\ checked[j].plex = "yes"}
    IN  [coll |-> [tvdb |-> {checked[j].tvdbId : j \in held} \ {0},
                   tmdb |-> {checked[j].tmdbId : j \in held} \ {0}],
         lib  |-> [tvdb |-> {checked[j].tvdbId : j \in inPlex} \ {0},
                   tmdb |-> {checked[j].tmdbId : j \in inPlex} \ {0}]]

\* union = already.union(plex_already)
MovieAlready(c, l) == c.tmdb \cup l.tmdb

\* merged_tvdb and merged_tmdb as unions of the two sets
SeriesMerged_Union(c, l) ==
    [tvdb |-> c.tvdb \cup l.tvdb, tmdb |-> c.tmdb \cup l.tmdb]

\* merged_tvdb = already_tvdb.intersection(plex_already_tvdb), and the same for tmdb
SeriesMerged(c, l) ==
    [tvdb |-> c.tvdb \cap l.tvdb, tmdb |-> c.tmdb \cap l.tmdb]

\* MovieSelect.__init__: one option per candidate of results[:25] that has a tmdbId,
\* with value str(tmdbId), marked when the tmdbId is in `already`
MovieOptions(res, already) ==
    LET shown == SelectSeq(Slice(res, SelectLimit), LAMBDA r : r.tmdbId # 0)
    IN  [i \in DOMAIN shown |->
           [value |-> str(shown[i].tmdbId), tvdbId |-> 0,
            tmdbId |-> shown[i].tmdbId,
            flagged |-> shown[i].tmdbId \in already]]

\* SeriesSelect.__init__: one option per candidate of results[:25] that has a tvdbId
\* or a tmdbId, with value "tvdb:<id or 0>|tmdb:<id or 0>", marked when
\* (r.tvdbId in already_tvdb) or (r.tmdbId in already_tmdb if r.tmdbId else False)
SeriesOptions(res, merged) ==
    LET shown == SelectSeq(Slice(res, SelectLimit),
                           LAMBDA r : r.tvdbId # 0 \/ r.tmdbId # 0)
    IN  [i \in DOMAIN shown |->
           [value |-> <<"t", "v", "d", "b", ":">> \o str(shown[i].tvdbId)
                        \o <<"|", "t", "m", "d", "b", ":">> \o str(shown[i].tmdbId),
            tvdbId |-> shown[i].tvdbId,
            tmdbId |-> shown[i].tmdbId,
            flagged |-> \/ shown[i].tvdbId \in merged.tvdb
                        \/ shown[i].tmdbId # 0 /\ shown[i].tmdbId \in merged.tmdb]]

\* The end of both commands: the message "Pick a result:" carries the select; when
\* it is rejected the except clause reports a failed search
SendSelect(opts) ==
    \E sendOk \in BOOLEAN :
      IF sendOk THEN /\ options' = opts
                     /\ select_send' = "ok"
                     /\ msgs' = <<"pick_result">>
                ELSE /\ options' = <<>>
                     /\ select_send' = "rejected"
                     /\ msgs' = <<"search_failed">>

\* What a command leaves alone
SearchFrame ==
    UNCHANGED <<chosen, wizardVars, confirms, calls, submits, started, checkVars, barVars,
                rpcVars, buttonVars, views,
                viewVars>>

\* An existence check of candidate r raised: for a movie the collection check is
\* made when r has a tmdbId and the library check when r has a tmdbId or an imdbId,
\* for a series the collection check is always made and the library check when r has
\* an id
CheckRaised(k, r) ==
    IF k = "movie"
      THEN \/ r.tmdbId # 0 /\ r.held = "error"
           \/ (r.tmdbId # 0 \/ r.imdbId # <<>>) /\ r.plex = "error"
      ELSE \/ r.held = "error"
           \/ (r.tvdbId # 0 \/ r.tmdbId # 0) /\ r.plex = "error"

\* /movie_add without the inner try blocks: an existence check that raises reaches
\* the except clause of the command
movie_add_Propagates ==
    /\ cmd = "none"
    /\ cmd' = "movie_add"
    /\ \E found \in {"ok", "error"} :
         IF found = "error"
           THEN /\ results' = <<>>
                /\ coll' = NoIds
                /\ lib' = NoIds
                /\ options' = <<>>
                /\ select_send' = "none"
                /\ msgs' = <<"search_failed">>
           ELSE \E n \in 0..MaxResults, plexOn \in BOOLEAN :
                  \E res \in ResultLists("movie", n, plexOn) :
                    /\ results' = res
                    /\ IF res = <<>>
                         THEN /\ coll' = NoIds
                              /\ lib' = NoIds
                              /\ options' = <<>>
                              /\ select_send' = "none"
                              /\ msgs' = <<"no_results">>
                         ELSE IF \E i \in DOMAIN Slice(res, CheckLimit) :
                                   CheckRaised("movie", res[i])
                         THEN /\ coll' = NoIds
                              /\ lib' = NoIds
                              /\ options' = <<>>
                              /\ select_send' = "none"
                              /\ msgs' = <<"search_failed">>
                         ELSE LET sets == MovieChecks(res)
                              IN  /\ coll' = sets.coll
                                  /\ lib' = sets.lib
                                  /\ SendSelect(MovieOptions(res,
                                         MovieAlready(sets.coll, sets.lib)))
    /\ SearchFrame

\* /movie_add: lookup (a failure reaches the except clause), "No movies found." for
\* an empty result, else the existence checks and the select
movie_add ==
    /\ cmd = "none"
    /\ cmd' = "movie_add"
    /\ \E found \in {"ok", "error"} :
         IF found = "error"
           THEN /\ results' = <<>>
                /\ coll' = NoIds
                /\ lib' = NoIds
                /\ options' = <<>>
                /\ select_send' = "none"
                /\ msgs' = <<"search_failed">>
           ELSE \E n \in 0..MaxResults, plexOn \in BOOLEAN :
                  \E res \in ResultLists("movie", n, plexOn) :
                    /\ results' = res
                    /\ IF res = <<>>
                         THEN /\ coll' = NoIds
                              /\ lib' = NoIds
                              /\ options' = <<>>
                              /\ select_send' = "none"
                              /\ msgs' = <<"no_results">>
                         ELSE LET sets == MovieChecks(res)
                              IN  /\ coll' = sets.coll
                                  /\ lib' = sets.lib
                                  /\ SendSelect(MovieOptions(res,
                                         MovieAlready(sets.coll, sets.lib)))
    /\ SearchFrame

\* /series_add: "Sonarr is not configured." without a Sonarr client, else as
\* movie_add with the ids of both kinds
series_add ==
    /\ cmd = "none"
    /\ cmd' = "series_add"
    /\ \E found \in {"unconfigured", "ok", "error"} :
         IF found # "ok"
           THEN /\ results' = <<>>
                /\ coll' = NoIds
                /\ lib' = NoIds
                /\ options' = <<>>
                /\ select_send' = "none"
                /\ msgs' = IF found = "error" THEN <<"search_failed">>
                                             ELSE <<"sonarr_unconfigured">>
           ELSE \E n \in 0..MaxResults, plexOn \in BOOLEAN :
                  \E res \in ResultLists("series", n, plexOn) :
                    /\ results' = res
                    /\ IF res = <<>>
                         THEN /\ coll' = NoIds
                              /\ lib' = NoIds
                              /\ options' = <<>>
                              /\ select_send' = "none"
                              /\ msgs' = <<"no_results">>
                         ELSE LET sets == SeriesChecks(res)
                              IN  /\ coll' = sets.coll
                                  /\ lib' = sets.lib
                                  /\ SendSelect(SeriesOptions(res,
                                         SeriesMerged(sets.coll, sets.lib)))
    /\ SearchFrame

---------------------------------------------------------------------------
(* The progress bar: _progress_bar *)

\* The cells of a bar, by the names of their characters: "█" * filled,
\* "░" * (width - filled) and "∙" * width
FilledCell  == "full block"
EmptyCell   == "light shade"
UnknownCell == "bullet operator"

\* The percentages a bar is drawn for: None, or a number of tenths of a percent from
\* below 0 to above 100
Percents == {None} \cup {<<p>> : p \in -50..1050}

\* The widths a bar is drawn with
Widths == {1, 7, DefaultWidth}

\* pct = max(0.0, min(100.0, pct)), in tenths of a percent
Clamp(p) == IF p < 0 THEN 0 ELSE IF p > 1000 THEN 1000 ELSE p

\* round(x) of Python for x = n / 1000 >= 0: the nearest integer, the even one of the
\* two when x lies halfway between them
round(n) ==
    LET q == n \div 1000
        r == n % 1000
    IN  IF r < 500 THEN q
        ELSE IF r > 500 THEN q + 1
        ELSE IF q % 2 = 0 THEN q ELSE q + 1

\* "c" * n
Repeat(c, n) == [i \in 1..n |-> c]

\* _progress_bar with filled = int((pct / 100.0) * width), without round
progress_bar_Truncated(pct, width) ==
    IF pct = None THEN Repeat(UnknownCell, width)
    ELSE LET filled == (Clamp(pct[1]) * width) \div 1000
         IN  Repeat(FilledCell, filled) \o Repeat(EmptyCell, width - filled)

\* _progress_bar(pct, width)
progress_bar(pct, width) ==
    IF pct = None THEN Repeat(UnknownCell, width)
    ELSE LET filled == round(Clamp(pct[1]) * width)
         IN  Repeat(FilledCell, filled) \o Repeat(EmptyCell, width - filled)

\* One call of _progress_bar
ProgressBar ==
    /\ bar' = progress_bar(bar_pct, bar_width)
    /\ UNCHANGED <<wizardVars, confirms, calls, submits, started, msgs, checkVars,
                   commandVars, bar_pct, bar_width, rpcVars, buttonVars, views,
                   viewVars>>

---------------------------------------------------------------------------
(* The representative episode: SonarrClient.pick_missing_aired_monitored_episode *)

\* datetime.now(timezone.utc), counted in days like the air dates below
now == 2

\* What Sonarr may report of one episode besides its numbers: monitored, hasFile and
\* airDateUtc, a string (a day number stands for the ISO date; "" also stands for an
\* absent field, which `if not air` treats alike; "x" is not a date)
EpisodeShapes ==
    { [monitored |-> TRUE,  hasFile |-> FALSE, airDateUtc |-> <<"1">>],
      [monitored |-> TRUE,  hasFile |-> FALSE, airDateUtc |-> <<"2">>],
      [monitored |-> TRUE,  hasFile |-> FALSE, airDateUtc |-> <<"3">>],
      [monitored |-> TRUE,  hasFile |-> TRUE,  airDateUtc |-> <<"1">>],
      [monitored |-> FALSE, hasFile |-> FALSE, airDateUtc |-> <<"1">>],
      [monitored |-> TRUE,  hasFile |-> FALSE, airDateUtc |-> <<>>],
      [monitored |-> TRUE,  hasFile |-> FALSE, airDateUtc |-> <<"x">>] }

\* One episode of the list; season 0 holds the specials
Episode(s, e, sh) ==
    [id |-> 10 * s + e, seasonNumber |-> s, episodeNumber |-> e,
     monitored |-> sh.monitored, hasFile |-> sh.hasFile,
     airDateUtc |-> sh.airDateUtc]

Episodes == {Episode(s, e, sh) : s \in {0, 1}, e \in {1, 2}, sh \in EpisodeShapes}

\* What get_episode_list may return: up to MaxEpisodes episodes, no two with the same
\* season and episode number
EpisodeLists ==
    {l \in UNION {[1..n -> Episodes] : n \in 0..MaxEpisodes} :
       \A i, j \in DOMAIN l : l[i].id = l[j].id => i = j}

\* The filter of the loop over `episodes`: monitored, no file, an air date that
\* parses (datetime.fromisoformat) and is not after now
Candidate(ep) ==
    /\ ep.monitored
    /\ ~ep.hasFile
    /\ ep.airDateUtc # <<>>
    /\ isdigit(ep.airDateUtc)
    /\ int(ep.airDateUtc) <= now

\* The sort key (seasonNumber, episodeNumber) of a is greater than that of b
KeyAfter(a, b) ==
    \/ a.seasonNumber > b.seasonNumber
    \/ a.seasonNumber = b.seasonNumber /\ a.episodeNumber > b.episodeNumber

\* pick_missing_aired_monitored_episode: candidates.sort(key=(seasonNumber,
\* episodeNumber), reverse=True) is stable, so candidates[0] is the first candidate
\* whose key no other candidate exceeds
pick_missing_aired_monitored_episode(eps) ==
    LET candidates == SelectSeq(eps, Candidate)
        first == CHOOSE i \in DOMAIN candidates :
                   /\ \A j \in DOMAIN candidates :
                        ~KeyAfter(candidates[j], candidates[i])
                   /\ \A j \in 1..(i - 1) : KeyAfter(candidates[i], candidates[j])
    IN  IF candidates = <<>> THEN None ELSE <<candidates[first]>>

\* One call of pick_missing_aired_monitored_episode on the list `episodes`
PickEpisode ==
    /\ episode' = pick_missing_aired_monitored_episode(episodes)
    /\ UNCHANGED <<wizardVars, confirms, calls, submits, started, msgs, expected,
                   releases, picker, picked, episodes, otherVars, viewVars>>

---------------------------------------------------------------------------
(* The selection session *)

Profiles == 1..NumProfiles

\* p["name"] of the quality profile with id p, as the backend lists it
ProfileName(p) ==
    CASE p = 1 -> <<"H", "D">>
      [] p = 2 -> <<"s", "d">>
      [] OTHER -> <<"U", "H", "D">>

\* value=f"{p['id']}|{p['name']}" of a quality option
OptionValue(p) == str(p) \o <<"|">> \o ProfileName(p)

\* One season of a lookup or of an existing series: its number, its monitored flag
\* and its episode counts (season 2 is fully held)
Season(i, m) ==
    [seasonNumber |-> i, monitored |-> m,
     statistics |-> [episodeFileCount  |-> IF i = 2 THEN 10 ELSE i,
                     totalEpisodeCount |-> 10]]

\* The season lists the backend may report: seasons 1..n, all of them monitored (a
\* lookup) or only the odd ones (an existing series)
SeasonLists ==
    {[i \in 1..n |-> Season(i, all \/ (i % 2 = 1))] :
        n \in 0..MaxSeason, all \in BOOLEAN}

SeasonNumbers(src) == {src[i].seasonNumber : i \in DOMAIN src}

\* SeasonMultiSelect.__init__ with "0" as the value of the placeholder option
SeasonOptions_ZeroPlaceholder(src) ==
    IF src = <<>> THEN <<str(0)>>
    ELSE [i \in DOMAIN src |-> str(src[i].seasonNumber)]

\* SeasonMultiSelect.__init__: the option values, str(num) for each season of
\* seasons_source, or the single empty-valued option "No seasons"
SeasonOptions(src) ==
    IF src = <<>> THEN << <<>> >>
    ELSE [i \in DOMAIN src |-> str(src[i].seasonNumber)]

\* SonarrClient.build_monitored_seasons with the unselected seasons left out
build_monitored_seasons_OnlySelected(src, selected) ==
    SelectSeq([i \in DOMAIN src |-> [src[i] EXCEPT !.monitored = TRUE]],
              LAMBDA s : s.seasonNumber \in selected)

\* SonarrClient.build_monitored_seasons(seasons_source, selected), called by the
\* confirm button; sonarr.py does not define it.  Every season of seasons_source, its
\* monitored flag set to membership in selected
build_monitored_seasons(src, selected) ==
    [i \in DOMAIN src |->
        [src[i] EXCEPT !.monitored = (src[i].seasonNumber \in selected)]]

RECURSIVE Ascending(_)
\* The elements of a finite set of numbers, in ascending order
Ascending(S) ==
    IF S = {} THEN <<>>
    ELSE LET m == CHOOSE x \in S : \A y \in S : x <= y
         IN  <<m>> \o Ascending(S \ {m})

\* One backend call of a submission: the operation, how it ended ("ok", "none" for a
\* 404 answered as None, "error" for an exception) and what it carried
Call(op, res, q, seasons, sn) ==
    [op |-> op, res |-> res, quality |-> q, seasons |-> seasons, season |-> sn,
     guid |-> <<>>, indexer_id |-> 0]

\* post_release(guid, indexer_id) and how it ended
Grab(res, guid, indexer_id) ==
    [Call("post_release", res, 0, <<>>, 0) EXCEPT !.guid = guid,
                                                  !.indexer_id = indexer_id]

IsSubmit(c) == c.op \in {"add_movie", "add_series", "update_series"}

RECURSIVE CountSubmits(_)
CountSubmits(cs) ==
    IF cs = <<>> THEN 0
    ELSE (IF IsSubmit(Head(cs)) THEN 1 ELSE 0) + CountSubmits(Tail(cs))

\* view.start_auto_update(interaction, msg) on a freshly built tracking view: the
\* message id is stored and the task is created.  The first view created is followed
\* in detail; views created later are separate objects and are only counted.
StartAutoUpdate(k) ==
    /\ started' = started + 1
    /\ IF view_kind = "none"
         THEN /\ view_kind' = k
              /\ message_id' = 1
              /\ task' = "test"
              /\ it' = 0
              /\ outcome' = "running"
              /\ UNCHANGED <<stopped, emb, done, obs, edit_res, queries, edits,
                             sleeps, stop_edits>>
         ELSE UNCHANGED viewVars

NoAutoUpdate == UNCHANGED <<started, viewVars>>

\* `if not view.selected_quality_id` is never true
QualityMissing_Never(q) == FALSE

\* `if not view.selected_quality_id`
QualityMissing(q) == q = 0

\* SeriesQualitySelect.callback: the submitted value is one of the offered options
SeriesQualitySelectCallback ==
    /\ kind = "wizard"
    /\ \E p \in Profiles :
         /\ quality_values' = <<OptionValue(p)>>
         /\ selected_quality_id' = int(split(OptionValue(p))[1])
    /\ msgs' = <<"quality_set">>
    /\ UNCHANGED <<kind, existing_id, seasons_source, selected_seasons,
                   season_values, confirms, calls, submits, started, checkVars,
                   otherVars, viewVars>>

\* SeasonMultiSelect.callback adding the submitted seasons to the stored set
SeasonMultiSelectCallback_Accumulates ==
    /\ kind = "wizard"
    /\ \E I \in SUBSET DOMAIN SeasonOptions(seasons_source) :
         LET opts == SeasonOptions(seasons_source)
             asc  == Ascending(I)
             vals == [k \in 1..Len(asc) |-> opts[asc[k]]]
         IN  /\ (I = {}) => (seasons_source = <<>>)
             /\ season_values' = vals
             /\ selected_seasons' = selected_seasons \cup
                    {int(vals[k]) : k \in {j \in DOMAIN vals : isdigit(vals[j])}}
    /\ msgs' = <<"seasons_selected">>
    /\ UNCHANGED <<kind, existing_id, seasons_source, selected_quality_id,
                   quality_values, confirms, calls, submits, started, checkVars,
                   otherVars, viewVars>>

\* SeasonMultiSelect.callback: the submitted values are some of the offered options,
\* at least one when seasons are offered (min_values); the stored set is
\* set(int(v) for v in self.values if v.isdigit())
SeasonMultiSelectCallback ==
    /\ kind = "wizard"
    /\ \E I \in SUBSET DOMAIN SeasonOptions(seasons_source) :
         LET opts == SeasonOptions(seasons_source)
             asc  == Ascending(I)
             vals == [k \in 1..Len(asc) |-> opts[asc[k]]]
         IN  /\ (I = {}) => (seasons_source = <<>>)
             /\ season_values' = vals
             /\ selected_seasons' =
                    {int(vals[k]) : k \in {j \in DOMAIN vals : isdigit(vals[j])}}
    /\ msgs' = <<"seasons_selected">>
    /\ UNCHANGED <<kind, existing_id, seasons_source, selected_quality_id,
                   quality_values, confirms, calls, submits, started, checkVars,
                   otherVars, viewVars>>

\* The except clause swallows the failure: nothing is sent
ReportFailure_Silent(sofar, text) == msgs' = sofar

\* `except Exception as e: log.exception(...); await interaction.followup.send("...")`
\* of QualitySelect.callback and ConfirmSeriesAddButton.callback: the failure message
\* follows what the callback had sent so far
ReportFailure(sofar, text) == msgs' = Append(sofar, text)

\* One cached release as the release check and the pick list read it:
\* r["quality"]["quality"]["name"], r.get("guid", "") and r.get("indexerId", 0)
Release(n, g, x) == [name |-> n, guid |-> g, indexerId |-> x]

\* The releases a backend may have cached
CachedReleases ==
    { Release(<<"H", "D">>, <<"g">>, 1), Release(<<"h", "d">>, <<>>, 0),
      Release(<<"S", "D">>, <<"h">>, 12) }

\* A cache of one release more than the pick list takes, all of one quality, the
\* i-th with guid "g<i>" and indexer i
FullCache(n) ==
    [i \in 1..(PickLimit + 1) |-> Release(n, <<"g">> \o str(i), i)]

\* What get_releases / get_releases_for_episode may return: up to MaxReleases of the
\* releases above in any order, or a full cache
ReleaseLists ==
    UNION {[1..n -> CachedReleases] : n \in 0..MaxReleases}
    \cup {FullCache(<<"H", "D">>), FullCache(<<"S", "D">>)}

\* matches = [r for r in releases if str(name).lower() == expected_quality_label.lower()]
\* comparing the names as they are
Matches_CaseSensitive(rels, label) ==
    SelectSeq(rels, LAMBDA r : r.name = label)

\* matches = [r for r in releases if str(name).lower() == expected_quality_label.lower()]
Matches(rels, label) ==
    SelectSeq(rels, LAMBDA r : lower(r.name) = lower(label))

\* top = releases, without the slice
Top_All(rels) == rels

\* top = releases[:25]
Top(rels) == SubSeq(rels, 1, IF Len(rels) < PickLimit THEN Len(rels) ELSE PickLimit)

\* val = f"{r.get('guid','')}|{r.get('indexerId',0)}"
ReleaseValue(r) == r.guid \o <<"|">> \o str(r.indexerId)

\* ReleaseSelect.__init__ without the test of the value: one option per release of
\* options[:25]
ReleaseOptions_NoFilter(top) ==
    LET opts == Top(top)
    IN  IF opts = <<>> THEN << <<>> >>
        ELSE [i \in DOMAIN opts |-> ReleaseValue(opts[i])]

\* ReleaseSelect.__init__: the values of its options: one per release of options[:25]
\* whose value has something before the bar, or the single empty-valued option
\* "No releases available"
ReleaseOptions(top) ==
    LET opts == SelectSeq(Top(top), LAMBDA r : split(ReleaseValue(r))[1] # <<>>)
    IN  IF opts = <<>> THEN << <<>> >>
        ELSE [i \in DOMAIN opts |-> ReleaseValue(opts[i])]

\* The tail of the release check with the fresh search left out when nothing is cached
NoMatch_NoSearch(k, rels, label, sofar, sent) ==
    LET view == ReleaseOptions(Top(rels))
    IN  IF Top(rels) = <<>>
          THEN /\ calls' = sofar
               /\ msgs' = Append(sent, "search_not_triggered")
               /\ picker' = <<>>
          ELSE \E sendOk \in BOOLEAN :
                 /\ calls' = sofar
                 /\ IF sendOk
                      THEN /\ msgs' = Append(sent, "pick_release")
                           /\ picker' = view
                      ELSE /\ ReportFailure(sent, "add_failed")
                           /\ picker' = <<>>

\* maybe_offer_release_picker_for_movie / _for_series from `top = releases[:25]` on:
\* nothing cached -> one fresh search (trigger_movie_search / trigger_series_search)
\* and a message that tells whether it could be triggered; otherwise the pick list,
\* whose message carries a view and may be rejected, which reaches the caller's
\* except clause
NoMatch(k, rels, label, sofar, sent) ==
    LET search == IF k = "movie" THEN "trigger_movie_search"
                                 ELSE "trigger_series_search"
        view   == ReleaseOptions(Top(rels))
    IN  IF Top(rels) = <<>>
          THEN \E trig \in {"ok", "error"} :
                 /\ calls' = Append(sofar, Call(search, trig, 0, <<>>, 0))
                 /\ msgs' = Append(sent, IF trig = "ok" THEN "search_triggered"
                                                       ELSE "search_not_triggered")
                 /\ picker' = <<>>
          ELSE \E sendOk \in BOOLEAN :
                 /\ calls' = sofar
                 /\ IF sendOk
                      THEN /\ msgs' = Append(sent, "pick_release")
                           /\ picker' = view
                      ELSE /\ ReportFailure(sent, "add_failed")
                           /\ picker' = <<>>

\* maybe_offer_release_picker_for_movie, and maybe_offer_release_picker_for_series
\* once an episode is given: fetch the cached releases (a failure counts as none),
\* report success when one matches the expected label, else NoMatch
ReleaseCheck(k, label, sofar, sent) ==
    \E ferr \in BOOLEAN, got \in ReleaseLists :
      LET rels == IF ferr THEN <<>> ELSE got
          op   == IF k = "movie" THEN "get_releases" ELSE "get_releases_for_episode"
          get  == Call(op, IF ferr THEN "error" ELSE "ok", 0, <<>>, 0)
      IN  /\ ferr => got = <<>>
          /\ expected' = label
          /\ releases' = rels
          /\ picked' = <<>>
          /\ IF Matches(rels, label) # <<>>
               THEN /\ calls' = Append(sofar, get)
                    /\ msgs' = Append(sent, "releases_match")
                    /\ picker' = <<>>
               ELSE NoMatch(k, rels, label, Append(sofar, get), sent)

\* maybe_offer_release_picker_for_series without an episode, going on to the search
\* that the check makes when nothing is cached
NoEpisodeCheck_Searches(label, sofar, sent) ==
    /\ expected' = label
    /\ releases' = <<>>
    /\ picked' = <<>>
    /\ calls' = Append(sofar, Call("trigger_series_search", "ok", 0, <<>>, 0))
    /\ msgs' = Append(sent, "search_triggered")
    /\ picker' = <<>>

\* maybe_offer_release_picker_for_series without an episode: `if not episode`
NoEpisodeCheck(label, sofar, sent) ==
    /\ expected' = label
    /\ releases' = <<>>
    /\ picked' = <<>>
    /\ calls' = sofar
    /\ msgs' = Append(sent, "no_missing_episodes")
    /\ picker' = <<>>

\* ReleaseSelect.callback with the fresh search left out when the grab fails
ReleaseSelectCallback_NoSearch ==
    /\ picker # <<>>
    /\ \E i \in DOMAIN picker :
         LET value == picker[i] IN
           /\ picked' = value
           /\ IF value = <<>>
                THEN /\ calls' = <<>>
                     /\ msgs' = <<"no_releases">>
                ELSE \E grab \in {"ok", "error"} :
                       LET parts == split(value)
                           post  == Grab(grab, parts[1], int(parts[2]))
                       IN  /\ calls' = <<post>>
                           /\ msgs' = IF grab = "ok" THEN <<"grabbed">>
                                                    ELSE <<"grab_failed">>
    /\ UNCHANGED <<wizardVars, confirms, submits, started, expected, releases,
                   picker, episodes, episode, otherVars, viewVars>>

\* ReleaseSelect.callback: the selected value is one of the offered options.  The
\* placeholder's empty value is answered at once; any other value is split into guid
\* and indexer id and grabbed with post_release of the select's kind; when that
\* raises, the search of the same kind is triggered and the message tells whether
\* that could be done.
ReleaseSelectCallback ==
    /\ picker # <<>>
    /\ \E i \in DOMAIN picker :
         LET value == picker[i] IN
           /\ picked' = value
           /\ IF value = <<>>
                THEN /\ calls' = <<>>
                     /\ msgs' = <<"no_releases">>
                ELSE \E grab \in {"ok", "error"} :
                       LET parts  == split(value)
                           post   == Grab(grab, parts[1], int(parts[2]))
                           search == IF kind = "movie" THEN "trigger_movie_search"
                                                       ELSE "trigger_series_search"
                       IN  IF grab = "ok"
                             THEN /\ calls' = <<post>>
                                  /\ msgs' = <<"grabbed">>
                             ELSE \E trig \in {"ok", "error"} :
                                    /\ calls' = <<post, Call(search, trig, 0, <<>>, 0)>>
                                    /\ msgs' = IF trig = "ok" THEN <<"search_retry">>
                                                             ELSE <<"grab_failed">>
    /\ UNCHANGED <<wizardVars, confirms, submits, started, expected, releases,
                   picker, episodes, episode, otherVars, viewVars>>

\* QualitySelect.callback, kind == "movie": the submitted option is split into the
\* profile id and its label; add_movie, then the tracking view and its message,
\* start_auto_update, and the release check.  Any exception inside the try (the
\* add, the send of the tracking message, the send of the pick list) reaches the
\* except clause.
QualitySelectMovie ==
    /\ kind = "movie"
    /\ confirms < MaxConfirms
    /\ confirms' = confirms + 1
    /\ \E p \in Profiles, add \in {"ok", "error"}, sendOk \in BOOLEAN :
         LET parts  == split(OptionValue(p))
             qid    == int(parts[1])
             qlabel == parts[2]
             post   == <<Call("add_movie", add, qid, <<>>, 0)>>
         IN  /\ submits' = submits + 1
             /\ IF add = "error" \/ ~sendOk
                  THEN /\ calls' = post
                       /\ ReportFailure(<<>>, "add_failed")
                       /\ NoAutoUpdate
                       /\ UNCHANGED checkVars
                  ELSE /\ StartAutoUpdate("movie")
                       /\ episodes' = <<>>
                       /\ episode' = None
                       /\ ReleaseCheck("movie", qlabel, post, <<"tracking_started">>)
    /\ UNCHANGED <<wizardVars, otherVars>>

\* The episode lists get_episode_list returns to the quality picker: no episode, or one
\* monitored episode that was aired, will be aired or has its file (the choice among
\* several episodes is PickEpisode's subject)
NewSeriesEpisodes ==
    {<<>>} \cup {<<Episode(1, 1, sh)>> :
                   sh \in {e \in EpisodeShapes :
                             e.monitored /\ e.airDateUtc \in {<<"1">>, <<"3">>}}}

\* QualitySelect.callback, kind != "movie": add_series, the episode list and the
\* representative episode (a failure is swallowed and leaves no episode), then the
\* tracking view and its message, start_auto_update, and the release check
QualitySelectSeries ==
    /\ kind = "series"
    /\ confirms < MaxConfirms
    /\ confirms' = confirms + 1
    /\ submits' = submits + 1
    /\ \E p \in Profiles, add \in {"ok", "error"} :
         LET parts  == split(OptionValue(p))
             qid    == int(parts[1])
             qlabel == parts[2]
             post   == Call("add_series", add, qid, <<>>, 0)
         IN  IF add = "error"
               THEN /\ calls' = <<post>>
                    /\ ReportFailure(<<>>, "add_failed")
                    /\ NoAutoUpdate
                    /\ UNCHANGED checkVars
               ELSE \E fetched \in {"ok", "error"}, sendOk \in BOOLEAN :
                      LET list == Call("get_episode_list", fetched, 0, <<>>, 0)
                      IN  IF ~sendOk
                            THEN /\ calls' = <<post, list>>
                                 /\ ReportFailure(<<>>, "add_failed")
                                 /\ NoAutoUpdate
                                 /\ UNCHANGED checkVars
                            ELSE /\ StartAutoUpdate("series")
                                 /\ \E eps \in (IF fetched = "ok" THEN NewSeriesEpisodes
                                                                   ELSE {<<>>}) :
                                      LET ep == IF fetched = "ok"
                                                  THEN pick_missing_aired_monitored_episode(eps)
                                                  ELSE None
                                      IN  /\ episodes' = eps
                                          /\ episode' = ep
                                          /\ IF ep = None
                                               THEN NoEpisodeCheck(qlabel, <<post, list>>,
                                                                   <<"tracking_started">>)
                                               ELSE ReleaseCheck("series", qlabel,
                                                                 <<post, list>>,
                                                                 <<"tracking_started">>)
    /\ UNCHANGED <<wizardVars, otherVars>>

\* The `if view.existing_id:` branch with the season searches not guarded: the first
\* search that fails reaches the outer except clause
ConfirmExisting_SearchPropagates(q, override) ==
    \E load \in {"ok", "none", "error"} :
      LET get == Call("get_series_by_id", load, 0, <<>>, 0)
      IN  /\ NoAutoUpdate
          /\ IF load = "error"
               THEN /\ calls' = <<get>>
                    /\ UNCHANGED submits
                    /\ ReportFailure(<<>>, "series_failed")
             ELSE IF load = "none"
               THEN /\ calls' = <<get>>
                    /\ UNCHANGED submits
                    /\ msgs' = <<"could_not_load">>
             ELSE \E upd \in {"ok", "error"} :
                    LET put == Call("update_series", upd, q, override, 0)
                    IN  /\ submits' = submits + 1
                        /\ IF upd = "error"
                             THEN /\ calls' = <<get, put>>
                                  /\ ReportFailure(<<>>, "series_failed")
                             ELSE \E sr \in [selected_seasons -> {"ok", "error"}] :
                                    LET asc  == Ascending(selected_seasons)
                                        srch == [i \in 1..Len(asc) |->
                                                   Call("season_search", sr[asc[i]],
                                                        0, <<>>, asc[i])]
                                        bad  == {i \in 1..Len(asc) :
                                                   sr[asc[i]] = "error"}
                                        stop == IF bad = {} THEN Len(asc)
                                                ELSE CHOOSE i \in bad :
                                                       \A j \in bad : i <= j
                                    IN  /\ calls' = <<get, put>> \o SubSeq(srch, 1, stop)
                                        /\ IF bad = {}
                                             THEN msgs' = <<"series_updated">>
                                             ELSE ReportFailure(<<>>, "series_failed")

\* ConfirmSeriesAddButton.callback, `if view.existing_id:` branch, with the season
\* searches issued before the update
ConfirmExisting_SearchFirst(q, override) ==
    \E load \in {"ok", "none", "error"} :
      LET get == Call("get_series_by_id", load, 0, <<>>, 0)
      IN  /\ NoAutoUpdate
          /\ IF load = "error"
               THEN /\ calls' = <<get>>
                    /\ UNCHANGED submits
                    /\ ReportFailure(<<>>, "series_failed")
             ELSE IF load = "none"
               THEN /\ calls' = <<get>>
                    /\ UNCHANGED submits
                    /\ msgs' = <<"could_not_load">>
             ELSE \E upd \in {"ok", "error"} :
                    \E sr \in [selected_seasons -> {"ok", "error"}] :
                      LET put  == Call("update_series", upd, q, override, 0)
                          asc  == Ascending(selected_seasons)
                          srch == [i \in 1..Len(asc) |->
                                     Call("season_search", sr[asc[i]],
                                          0, <<>>, asc[i])]
                      IN  /\ submits' = submits + 1
                          /\ calls' = <<get>> \o srch \o <<put>>
                          /\ IF upd = "error"
                               THEN ReportFailure(<<>>, "series_failed")
                               ELSE msgs' = <<"series_updated">>

\* ConfirmSeriesAddButton.callback, `if view.existing_id:` branch: load the series,
\* overwrite profile and seasons, update, then one season_search per selected season
\* (each in its own try / except: pass, which also covers season_search not being
\* defined in sonarr.py), then the success message.  No tracking view is built on
\* this branch.
ConfirmExisting(q, override) ==
    \E load \in {"ok", "none", "error"} :
      LET get == Call("get_series_by_id", load, 0, <<>>, 0)
      IN  /\ NoAutoUpdate
          /\ IF load = "error"
               THEN /\ calls' = <<get>>
                    /\ UNCHANGED submits
                    /\ ReportFailure(<<>>, "series_failed")
             ELSE IF load = "none"
               THEN /\ calls' = <<get>>
                    /\ UNCHANGED submits
                    /\ msgs' = <<"could_not_load">>
             ELSE \E upd \in {"ok", "error"} :
                    LET put == Call("update_series", upd, q, override, 0)
                    IN  /\ submits' = submits + 1
                        /\ IF upd = "error"
                             THEN /\ calls' = <<get, put>>
                                  /\ ReportFailure(<<>>, "series_failed")
                             ELSE \E sr \in [selected_seasons -> {"ok", "error"}] :
                                    LET asc  == Ascending(selected_seasons)
                                        srch == [i \in 1..Len(asc) |->
                                                   Call("season_search", sr[asc[i]],
                                                        0, <<>>, asc[i])]
                                    IN  /\ calls' = <<get, put>> \o srch
                                        /\ msgs' = <<"series_updated">>

\* How bot.sonarr.add_series(..., seasons_override=...) can end.  SonarrClient.add_series
\* takes no seasons_override parameter, so the call raises TypeError before any
\* request is sent
AddWithOverrideResults == {"error"}

\* ConfirmSeriesAddButton.callback, else branch: add_series with the season override,
\* then the tracking view and its message, then start_auto_update.  A call that
\* raises in Python (no request sent) does not count in submits.
ConfirmNew(q, override) ==
    \E add \in AddWithOverrideResults, sendOk \in BOOLEAN :
      /\ calls' = <<Call("add_series", add, q, override, 0)>>
      /\ submits' = IF add = "ok" THEN submits + 1 ELSE submits
      /\ IF add = "error" \/ ~sendOk
           THEN /\ ReportFailure(<<>>, "series_failed")
                /\ NoAutoUpdate
           ELSE /\ msgs' = <<"tracking_started">>
                /\ StartAutoUpdate("series")

\* ConfirmSeriesAddButton.callback clearing the season selection when it rejects
ConfirmSeriesAdd_RejectResets ==
    /\ kind = "wizard"
    /\ confirms < MaxConfirms
    /\ confirms' = confirms + 1
    /\ IF QualityMissing(selected_quality_id)
         THEN /\ msgs' = <<"choose_quality">>
              /\ calls' = <<>>
              /\ selected_seasons' = {}
              /\ UNCHANGED submits
              /\ NoAutoUpdate
         ELSE LET override == build_monitored_seasons(seasons_source, selected_seasons)
              IN  /\ UNCHANGED selected_seasons
                  /\ IF existing_id # 0
                       THEN ConfirmExisting(selected_quality_id, override)
                       ELSE ConfirmNew(selected_quality_id, override)
    /\ UNCHANGED <<kind, existing_id, seasons_source, selected_quality_id,
                   quality_values, season_values, checkVars, otherVars>>

\* ConfirmSeriesAddButton.callback
ConfirmSeriesAdd ==
    /\ kind = "wizard"
    /\ confirms < MaxConfirms
    /\ confirms' = confirms + 1
    /\ IF QualityMissing(selected_quality_id)
         THEN /\ msgs' = <<"choose_quality">>
              /\ calls' = <<>>
              /\ UNCHANGED submits
              /\ NoAutoUpdate
         ELSE LET override == build_monitored_seasons(seasons_source, selected_seasons)
              IN  IF existing_id # 0
                    THEN ConfirmExisting(selected_quality_id, override)
                    ELSE ConfirmNew(selected_quality_id, override)
    /\ UNCHANGED <<wizardVars, checkVars, otherVars>>

---------------------------------------------------------------------------
(* The pick from the select of /movie_add *)

\* What a pick from the select of /movie_add leaves alone
PickFrame ==
    UNCHANGED <<cmd, results, coll, lib, options, select_send, existing_id,
                seasons_source, selected_quality_id, selected_seasons,
                quality_values, season_values, confirms, submits, started,
                checkVars, barVars, rpcVars, buttonVars, views, viewVars>>

\* MovieSelect.callback without the test of view.already: every pick goes on to the
\* quality selection
MovieSelectCallback_NoAlreadyTest ==
    /\ cmd = "movie_add"
    /\ select_send = "ok"
    /\ \E i \in DOMAIN options, profiles \in {"ok", "error"}, sendOk \in BOOLEAN :
         LET tmdb_id == int(options[i].value) IN
           /\ chosen' = tmdb_id
           /\ calls' = <<Call("list_quality_profiles", profiles, 0, <<>>, 0)>>
           /\ IF profiles = "ok" /\ sendOk
                THEN /\ kind' = "movie"
                     /\ msgs' = <<"pick_quality">>
                ELSE /\ msgs' = <<>>
                     /\ UNCHANGED kind
    /\ PickFrame

\* MovieSelect.callback and MovieSelectView.add_selected: the picked value is one of
\* the select's options.  A tmdb id of view.already (the union the command passed) is
\* answered with "That movie is already in Radarr."; otherwise the quality profiles
\* are listed and the quality picker of a movie session is sent.  Nothing catches an
\* exception of that listing or of that send.
MovieSelectCallback ==
    /\ cmd = "movie_add"
    /\ select_send = "ok"
    /\ \E i \in DOMAIN options :
         LET tmdb_id == int(options[i].value) IN
           /\ chosen' = tmdb_id
           /\ IF tmdb_id \in MovieAlready(coll, lib)
                THEN /\ calls' = <<>>
                     /\ msgs' = <<"already_in_radarr">>
                     /\ UNCHANGED kind
                ELSE \E profiles \in {"ok", "error"}, sendOk \in BOOLEAN :
                       /\ calls' = <<Call("list_quality_profiles", profiles, 0,
                                          <<>>, 0)>>
                       /\ IF profiles = "ok" /\ sendOk
                            THEN /\ kind' = "movie"
                                 /\ msgs' = <<"pick_quality">>
                            ELSE /\ msgs' = <<>>
                                 /\ UNCHANGED kind
    /\ PickFrame

---------------------------------------------------------------------------
(* The transfer client: TransmissionClient._rpc *)

\* The _rpc calls made in one run
MaxRpcCalls == 3

\* r.status_code == 409
Conflict == 409

\* The values a response may carry in its X-Transmission-Session-Id header: an
\* empty string or a session id
SessionIds == {<<"">>, <<"a">>, <<"b">>}

\* The truth value of an optional string: `if self._sid`
Truthy(x) == x # None /\ x[1] # ""

\* What the server may answer to one request: no response (the post raises, status
\* 0), or a response with a status and possibly a session id header
Answers ==
    {[status |-> 0, carried |-> None]}
    \cup [status : {200, Conflict, 500}, carried : {None} \cup SessionIds]

\* One request as sent: its session id header (None when it has none) and the answer
Request(h, a) == [header |-> h, status |-> a.status, carried |-> a.carried]

\* r.raise_for_status(); return r.json()
Outcome(a) == IF a.status = 200 THEN "json" ELSE "error"

\* No _rpc call has been made
NoRpc ==
    /\ _sid = None
    /\ requests = <<>>
    /\ rpc_result = "none"
    /\ rpc_calls = 0

\* What an _rpc call leaves alone
RpcFrame ==
    UNCHANGED <<wizardVars, confirms, calls, submits, started, msgs, checkVars,
                commandVars, barVars, buttonVars, views, viewVars>>

\* _rpc repeating the 409 handling until the answer is no 409 (one more round here)
rpc_KeepsRetrying ==
    /\ rpc_calls < MaxRpcCalls
    /\ rpc_calls' = rpc_calls + 1
    /\ \E a1 \in Answers, a2 \in Answers, a3 \in Answers :
         LET first == Request(IF Truthy(_sid) THEN _sid ELSE None, a1) IN
           IF a1.status # Conflict
             THEN /\ requests' = <<first>>
                  /\ rpc_result' = Outcome(a1)
                  /\ UNCHANGED _sid
             ELSE IF a2.status # Conflict
               THEN /\ _sid' = a1.carried
                    /\ requests' = <<first, Request(a1.carried, a2)>>
                    /\ rpc_result' = Outcome(a2)
               ELSE /\ _sid' = a2.carried
                    /\ requests' = <<first, Request(a1.carried, a2),
                                     Request(a2.carried, a3)>>
                    /\ rpc_result' = Outcome(a3)
    /\ RpcFrame

\* TransmissionClient._rpc.  The first request carries the stored session id when it
\* is truthy.  A 409 stores the id of the response's header (None when it has none)
\* and the request is posted once more with that id; raise_for_status then raises
\* for any status from 400 on, a second 409 included.  With None as the header value
\* the second post either raises before anything is sent or goes out without the
\* header, depending on the HTTP library.
rpc ==
    /\ rpc_calls < MaxRpcCalls
    /\ rpc_calls' = rpc_calls + 1
    /\ \E a1 \in Answers :
         LET first == Request(IF Truthy(_sid) THEN _sid ELSE None, a1) IN
           IF a1.status # Conflict
             THEN /\ requests' = <<first>>
                  /\ rpc_result' = Outcome(a1)
                  /\ UNCHANGED _sid
             ELSE /\ _sid' = a1.carried
                  /\ \E a2 \in Answers, encoded \in BOOLEAN :
                       IF a1.carried = None /\ ~encoded
                         THEN /\ requests' = <<first>>
                              /\ rpc_result' = "error"
                         ELSE /\ requests' = <<first, Request(a1.carried, a2)>>
                              /\ rpc_result' = Outcome(a2)
    /\ RpcFrame

---------------------------------------------------------------------------
(* Tracking views side by side: each view with its own fields and its own task *)

\* A tracking view of kind k whose task has just been created for message m: the
\* fields _message_id and _stopped, the locals it and done of its _loop, the task's
\* position, and the message its loop edited last (0 before its first edit)
View(k, m) ==
    [view_kind |-> k, message_id |-> m, task |-> "test", it |-> 0,
     stopped |-> FALSE, done |-> FALSE, edited |-> 0]

\* What a step of one view leaves alone
ViewsFrame ==
    UNCHANGED <<wizardVars, confirms, calls, submits, started, checkVars,
                commandVars, barVars, rpcVars, buttonVars, viewVars>>

\* A _loop that edits the message of the view built last, as if the message id were
\* kept in one place for all views
LoopOf_SharedMessage(v) ==
    LET w == views[v] IN
      /\ w.task \in Running
      /\ \/ /\ w.task = "test"
            /\ views' = [views EXCEPT ![v].task =
                           IF w.it < max_iters /\ ~w.stopped THEN "render"
                                                             ELSE "returned"]
         \/ /\ w.task = "render"
            /\ \E r \in Renders(w.view_kind) :
                 views' = IF r.out = "raise"
                            THEN [views EXCEPT ![v].task = "raised"]
                            ELSE [views EXCEPT ![v].task = "edit",
                                               ![v].done = r.done]
         \/ /\ w.task = "edit"
            /\ \E ok \in BOOLEAN :
                 views' = IF ok /\ ~w.done
                            THEN [views EXCEPT
                                    ![v].edited = views[Len(views)].message_id,
                                    ![v].it = w.it + 1,
                                    ![v].task = "sleep"]
                            ELSE [views EXCEPT
                                    ![v].edited = views[Len(views)].message_id,
                                    ![v].task = "returned"]
         \/ /\ w.task = "sleep"
            /\ views' = [views EXCEPT ![v].task = "test"]
      /\ UNCHANGED msgs
      /\ ViewsFrame

\* One step of the task of view v, as _loop runs it: the while test, the status
\* computation, the edit of the view's own message (a failed edit and done = True
\* end the task, else `it` advances and the sleep begins), the end of the sleep
LoopOf(v) ==
    LET w == views[v] IN
      /\ w.task \in Running
      /\ \/ /\ w.task = "test"
            /\ views' = [views EXCEPT ![v].task =
                           IF w.it < max_iters /\ ~w.stopped THEN "render"
                                                             ELSE "returned"]
         \/ /\ w.task = "render"
            /\ \E r \in Renders(w.view_kind) :
                 views' = IF r.out = "raise"
                            THEN [views EXCEPT ![v].task = "raised"]
                            ELSE [views EXCEPT ![v].task = "edit",
                                               ![v].done = r.done]
         \/ /\ w.task = "edit"
            /\ \E ok \in BOOLEAN :
                 views' = IF ok /\ ~w.done
                            THEN [views EXCEPT ![v].edited = w.message_id,
                                               ![v].it = w.it + 1,
                                               ![v].task = "sleep"]
                            ELSE [views EXCEPT ![v].edited = w.message_id,
                                               ![v].task = "returned"]
         \/ /\ w.task = "sleep"
            /\ views' = [views EXCEPT ![v].task = "test"]
      /\ UNCHANGED msgs
      /\ ViewsFrame

\* A stop that sets the flag of every view, as if _stopped belonged to the class
StopOf_All(v) ==
    /\ views' = [u \in DOMAIN views |-> [views[u] EXCEPT !.stopped = TRUE]]
    /\ \E ok \in BOOLEAN : msgs' = IF ok THEN <<"tracking_stopped">> ELSE <<>>
    /\ ViewsFrame

\* StopTrackingButton.callback on the button of view v: self.view._stopped = True
StopOf(v) ==
    /\ views' = [views EXCEPT ![v].stopped = TRUE]
    /\ \E ok \in BOOLEAN : msgs' = IF ok THEN <<"tracking_stopped">> ELSE <<>>
    /\ ViewsFrame

\* The steps of the tasks and the stop buttons of all views, in any order
NextViews == \E v \in DOMAIN views : LoopOf(v) \/ StopOf(v)

---------------------------------------------------------------------------
(* Specifications *)

\* No tracking view exists yet
NoView ==
    /\ view_kind = "none"
    /\ message_id = 0
    /\ task = "none"
    /\ it = 0
    /\ stopped = FALSE
    /\ emb = "none"
    /\ done = FALSE
    /\ obs = NoObs
    /\ edit_res = "none"
    /\ outcome = "none"
    /\ queries = 0
    /\ edits = 0
    /\ sleeps = 0
    /\ stop_edits = 0

\* No search command has run
NoCommand ==
    /\ cmd = "none"
    /\ results = <<>>
    /\ coll = NoIds
    /\ lib = NoIds
    /\ options = <<>>
    /\ select_send = "none"
    /\ chosen = 0

\* No button of the tracking view has been pressed, and no task is astray
NoButtons ==
    /\ refresh = NoRefresh
    /\ disabled = FALSE
    /\ stops = 0
    /\ orphans = 0

\* _progress_bar has not been called
NoBar ==
    /\ bar_pct = None
    /\ bar_width = DefaultWidth
    /\ bar = <<>>

\* A session has just been opened: a movie or series quality picker, or a series
\* wizard for a new or an existing series with the seasons the backend lists
Init ==
    /\ kind \in {"movie", "series", "wizard"}
    /\ existing_id \in (IF kind = "wizard" THEN {0, 1} ELSE {0})
    /\ seasons_source \in (IF kind = "wizard" THEN SeasonLists ELSE {<<>>})
    /\ selected_quality_id = 0
    /\ selected_seasons = {}
    /\ quality_values = <<>>
    /\ season_values = <<>>
    /\ expected = <<>>
    /\ releases = <<>>
    /\ picker = <<>>
    /\ picked = <<>>
    /\ episodes = <<>>
    /\ episode = None
    /\ NoCommand
    /\ NoBar
    /\ NoRpc
    /\ NoButtons
    /\ views = <<>>
    /\ confirms = 0
    /\ calls = <<>>
    /\ submits = 0
    /\ started = 0
    /\ msgs = <<>>
    /\ NoView

\* No session is open and no tracking view exists
NoSession ==
    /\ kind = "none"
    /\ existing_id = 0
    /\ seasons_source = <<>>
    /\ selected_quality_id = 0
    /\ selected_seasons = {}
    /\ quality_values = <<>>
    /\ season_values = <<>>
    /\ expected = <<>>
    /\ releases = <<>>
    /\ picker = <<>>
    /\ picked = <<>>
    /\ confirms = 0
    /\ calls = <<>>
    /\ submits = 0
    /\ started = 0
    /\ msgs = <<>>
    /\ NoView

\* The callbacks of the selection session
NextSubmit ==
    \/ QualitySelectMovie
    \/ QualitySelectSeries
    \/ SeriesQualitySelectCallback
    \/ SeasonMultiSelectCallback
    \/ ConfirmSeriesAdd

\* The steps of the tracking task and the stop button of its view
NextTrack ==
    \/ LoopTest
    \/ LoopRender
    \/ EditFailed
    \/ EditOk
    \/ LoopWake
    \/ StopTracking

\* The callbacks of the pick list a release check has sent
NextGrab == ReleaseSelectCallback

\* The two search commands and the pick from the select of /movie_add
NextSearch == movie_add \/ series_add \/ MovieSelectCallback

\* Everything that acts on one tracking view
NextView == start_auto_update \/ LoopStep \/ StopTracking \/ RefreshButton

Next == NextSubmit \/ NextTrack \/ NextGrab \/ NextSearch \/ rpc \/ NextView
          \/ NextViews

\* The whole program: a session and the tracking view its first success creates.
\* The properties below are checked under its parts, the specifications that follow.
Spec == Init /\ [][Next]_vars

\* The selection session alone: tracking tasks are created but take no step
SpecSubmit == Init /\ [][NextSubmit]_vars

\* A quality picker has added its subject and started the tracking view, and its
\* release check found cached releases, none of the expected quality, and has sent
\* the pick list
InitGrab ==
    /\ kind \in {"movie", "series"}
    /\ existing_id = 0
    /\ seasons_source = <<>>
    /\ selected_quality_id = 0
    /\ selected_seasons = {}
    /\ quality_values = <<>>
    /\ season_values = <<>>
    /\ \E p \in Profiles :
         /\ expected = ProfileName(p)
         /\ calls = (IF kind = "movie"
                       THEN <<Call("add_movie", "ok", p, <<>>, 0)>>
                       ELSE <<Call("add_series", "ok", p, <<>>, 0),
                              Call("get_episode_list", "ok", 0, <<>>, 0)>>)
                     \o <<Call(IF kind = "movie" THEN "get_releases"
                                                 ELSE "get_releases_for_episode",
                               "ok", 0, <<>>, 0)>>
    /\ releases \in {rels \in ReleaseLists :
                       rels # <<>> /\ Matches(rels, expected) = <<>>}
    /\ picker = ReleaseOptions(Top(releases))
    /\ picked = <<>>
    /\ episodes \in (IF kind = "movie" THEN {<<>>}
                     ELSE {eps \in NewSeriesEpisodes :
                             pick_missing_aired_monitored_episode(eps) # None})
    /\ episode = pick_missing_aired_monitored_episode(episodes)
    /\ NoCommand
    /\ NoBar
    /\ NoRpc
    /\ NoButtons
    /\ views = <<>>
    /\ confirms = 1
    /\ submits = 1
    /\ started = 1
    /\ msgs = <<"tracking_started", "pick_release">>
    /\ view_kind = kind
    /\ message_id = 1
    /\ task = "test"
    /\ it = 0
    /\ stopped = FALSE
    /\ emb = "none"
    /\ done = FALSE
    /\ obs = NoObs
    /\ edit_res = "none"
    /\ outcome = "running"
    /\ queries = 0
    /\ edits = 0
    /\ sleeps = 0
    /\ stop_edits = 0

\* The pick list alone, from the moment it is shown
SpecGrab == InitGrab /\ [][NextGrab]_vars

\* The bot is running and no command has been invoked
InitSearch ==
    /\ NoSession
    /\ NoCommand
    /\ NoBar
    /\ NoRpc
    /\ NoButtons
    /\ views = <<>>
    /\ episodes = <<>>
    /\ episode = None

\* One invocation of a search command
SpecSearch == InitSearch /\ [][NextSearch]_vars

\* _progress_bar is about to be called with a percentage and a width
InitBar ==
    /\ NoSession
    /\ NoCommand
    /\ episodes = <<>>
    /\ episode = None
    /\ bar_pct \in Percents
    /\ bar_width \in Widths
    /\ bar = <<>>
    /\ NoRpc
    /\ NoButtons
    /\ views = <<>>

\* The progress bar alone, for every percentage and width
SpecBar == InitBar /\ [][ProgressBar]_vars

\* The transfer client has just been constructed
InitRpc ==
    /\ NoSession
    /\ NoCommand
    /\ NoBar
    /\ NoRpc
    /\ NoButtons
    /\ views = <<>>
    /\ episodes = <<>>
    /\ episode = None

\* The transfer client alone: a run of _rpc calls
SpecRpc == InitRpc /\ [][rpc]_vars

\* An episode list has been fetched and no episode chosen from it yet
InitPick ==
    /\ NoSession
    /\ NoCommand
    /\ NoBar
    /\ NoRpc
    /\ NoButtons
    /\ views = <<>>
    /\ episodes \in EpisodeLists
    /\ episode = None

\* The choice of the representative episode alone, for every episode list
SpecPick == InitPick /\ [][PickEpisode]_vars

\* A quality picker has just added its subject and started the tracking view
InitTrack ==
    /\ kind \in {"movie", "series"}
    /\ existing_id = 0
    /\ seasons_source = <<>>
    /\ selected_quality_id = 0
    /\ selected_seasons = {}
    /\ quality_values = <<>>
    /\ season_values = <<>>
    /\ expected = ProfileName(1)
    /\ releases = <<Release(ProfileName(1), <<"g">>, 1)>>
    /\ picker = <<>>
    /\ picked = <<>>
    /\ episodes = <<>>
    /\ episode = None
    /\ NoCommand
    /\ NoBar
    /\ NoRpc
    /\ NoButtons
    /\ views = <<>>
    /\ confirms = 1
    /\ calls = (IF kind = "movie"
                  THEN <<Call("add_movie", "ok", 1, <<>>, 0)>>
                  ELSE <<Call("add_series", "ok", 1, <<>>, 0),
                         Call("get_episode_list", "ok", 0, <<>>, 0)>>)
                \o <<Call(IF kind = "movie" THEN "get_releases"
                                            ELSE "get_releases_for_episode",
                          "ok", 0, <<>>, 0)>>
    /\ submits = 1
    /\ started = 1
    /\ msgs = <<"tracking_started", "releases_match">>
    /\ view_kind = kind
    /\ message_id = 1
    /\ task = "test"
    /\ it = 0
    /\ stopped = FALSE
    /\ emb = "none"
    /\ done = FALSE
    /\ obs = NoObs
    /\ edit_res = "none"
    /\ outcome = "running"
    /\ queries = 0
    /\ edits = 0
    /\ sleeps = 0
    /\ stop_edits = 0

\* A tracking view has been built and sent with its message; start_auto_update has
\* not been called yet
InitView ==
    /\ kind \in {"movie", "series"}
    /\ existing_id = 0
    /\ seasons_source = <<>>
    /\ selected_quality_id = 0
    /\ selected_seasons = {}
    /\ quality_values = <<>>
    /\ season_values = <<>>
    /\ expected = <<>>
    /\ releases = <<>>
    /\ picker = <<>>
    /\ picked = <<>>
    /\ episodes = <<>>
    /\ episode = None
    /\ NoCommand
    /\ NoBar
    /\ NoRpc
    /\ NoButtons
    /\ views = <<>>
    /\ confirms = 1
    /\ calls = <<Call(IF kind = "movie" THEN "add_movie" ELSE "add_series",
                      "ok", 1, <<>>, 0)>>
    /\ submits = 1
    /\ started = 0
    /\ msgs = <<"tracking_started">>
    /\ view_kind = kind
    /\ message_id = 0
    /\ task = "none"
    /\ it = 0
    /\ stopped = FALSE
    /\ emb = "none"
    /\ done = FALSE
    /\ obs = NoObs
    /\ edit_res = "none"
    /\ outcome = "none"
    /\ queries = 0
    /\ edits = 0
    /\ sleeps = 0
    /\ stop_edits = 0

\* One tracking view from the moment it is sent: the calls of start_auto_update, the
\* steps of its task, and its two buttons
SpecView == InitView /\ [][NextView]_vars

\* A movie and a series have been added and the tracking view of each has been
\* started with its own message
InitViews ==
    /\ NoSession
    /\ NoCommand
    /\ NoBar
    /\ NoRpc
    /\ NoButtons
    /\ episodes = <<>>
    /\ episode = None
    /\ views = <<View("movie", 1), View("series", 2)>>

\* Two tracking views of different subjects running at the same time
SpecViews == InitViews /\ [][NextViews]_vars

\* The tracking view alone, from the start of its task
SpecTrack == InitTrack /\ [][NextTrack]_vars

\* The event loop runs a task that is ready: every await of the loop (the backend
\* calls with their 10 s timeout, the edit, the sleep) returns or raises
SpecTrackFair == SpecTrack /\ WF_vars(LoopStep)

---------------------------------------------------------------------------
(* Properties *)

Ended == task \in {"returned", "raised"}

FailureTexts == {"add_failed", "series_failed"}

Mentions(ms, texts) == \E i \in DOMAIN ms : ms[i] \in texts

\* A submission callback ran in this step
Submitted == confirms' = confirms + 1

\* The add / update call of the submission made in this step ended with res
SubmitCallEnded(res) ==
    /\ Submitted
    /\ \E i \in DOMAIN calls' : IsSubmit(calls'[i]) /\ calls'[i].res = res

\* C1: in every state of a tracking loop the iteration counter lies in 0..max_iters,
\* no step decreases it, and the loop begins at most max_iters status computations
\* and attempts at most max_iters edits.
C1_IterationBounded ==
    /\ [](/\ it \in 0..max_iters
          /\ queries <= max_iters
          /\ edits <= max_iters)
    /\ [][it' >= it]_vars

\* C1 witness: the loop used its whole budget
C1_Witness ==
    /\ it = max_iters
    /\ edits = max_iters
    /\ queries = max_iters
    /\ outcome = "exhausted"

\* C2 as claimed: once done = true has been computed the loop makes no further status
\* query, no further edit and no further sleep.
C2_NothingAfterDone ==
    [][done => (queries' = queries /\ edits' = edits /\ sleeps' = sleeps)]_vars

\* C2 amended: once done = true has been computed the loop makes no further status
\* query and no further sleep, and its only further edit is the edit of that same
\* iteration, after which the task has returned.
C2_DoneEndsLoop ==
    [][done => /\ queries' = queries
               /\ sleeps' = sleeps
               /\ it' = it
               /\ (edits' # edits =>
                     /\ task = "edit"
                     /\ edits' = edits + 1
                     /\ task' = "returned")]_vars

\* C2 witness: a loop that ended because its status computation said done, after
\* earlier iterations that did not
C2_Witness ==
    /\ done
    /\ outcome = "done"
    /\ task = "returned"
    /\ it > 0
    /\ edits = it + 1

\* C3: under fair scheduling of the loop task, every tracking loop ends, having
\* attempted at most max_iters edits.
C3_LoopTerminates == <>(Ended /\ edits <= max_iters)

\* C3 witness: a loop that was never stopped, never saw done and never failed to edit
\* has ended after max_iters iterations
C3_Witness ==
    /\ task = "returned"
    /\ outcome = "exhausted"
    /\ ~stopped
    /\ ~done
    /\ edit_res = "ok"
    /\ sleeps = max_iters

\* C4 as claimed: over the life of a selection session at most one add / update call
\* is issued to the backend.
C4_AtMostOneSubmission == submits <= 1

\* C5: a confirm of a wizard whose quality was never set tells the user to choose a
\* quality profile and makes no backend call, whatever the selected seasons.
C5_ConfirmNeedsQuality ==
    [][(kind = "wizard" /\ Submitted /\ selected_quality_id = 0) =>
          /\ msgs' = <<"choose_quality">>
          /\ calls' = <<>>
          /\ submits' = submits
          /\ started' = started]_vars

\* C5 witness: a confirm was rejected while seasons were selected
C5_Witness ==
    /\ kind = "wizard"
    /\ confirms > 0
    /\ selected_quality_id = 0
    /\ selected_seasons # {}
    /\ msgs = <<"choose_quality">>
    /\ calls = <<>>

\* C6: when the add / update call of a submission fails, the callback reports the
\* failure, issues that call only once and starts no tracking loop.
C6_FailedSubmissionIsTerminal ==
    [][SubmitCallEnded("error") =>
          /\ msgs' # <<>>
          /\ msgs'[Len(msgs')] \in FailureTexts
          /\ CountSubmits(calls') = 1
          /\ started' = started
          /\ UNCHANGED viewVars]_vars

\* C6 witness: a series update failed and was reported
C6_Witness ==
    /\ kind = "wizard"
    /\ Len(calls) = 2
    /\ calls[2].op = "update_series"
    /\ calls[2].res = "error"
    /\ msgs = <<"series_failed">>
    /\ started = 0

\* C7 as claimed: every submission whose add / update call succeeded and that was
\* reported as a success has started a tracking loop.
C7_SuccessStartsTracking ==
    [][(SubmitCallEnded("ok") /\ ~Mentions(msgs', FailureTexts)) =>
          started' = started + 1]_vars

\* C8: whenever the collection reports a file for the tracked movie and answers the
\* queue query, the status computation returns done = true, whatever the queue holds
\* and whatever the transfer backend answers.
C8_FilePresentIsDone ==
    (/\ view_kind = "movie"
     /\ obs.subject = "found"
     /\ obs.hasFile
     /\ obs.queue \in {"nomatch", "match"})
    => (done /\ emb = "downloaded" /\ task # "raised")

\* C8 witness: done was returned for a movie with a file, a matching queue entry and
\* a failing transfer backend
C8_Witness ==
    /\ view_kind = "movie"
    /\ obs.hasFile
    /\ obs.queue = "match"
    /\ obs.trans = "error"
    /\ done
    /\ task = "edit"

\* C9 as claimed: for a tracked series that is found, the status computation returns
\* done = true exactly when at least 99.9% of the episodes have files.
C9_SeriesDoneIffNearlyComplete ==
    (/\ view_kind = "series"
     /\ obs.subject = "found"
     /\ obs.queue \in {"nomatch", "match"})
    => (done <=> NearlyComplete(obs.stats))

\* C10: a failed edit of the status message ends the loop at once: the task returns
\* (it does not raise), nothing is sent to the user, and no status query, edit or
\* sleep follows.
C10_EditFailureEndsLoop ==
    /\ [](edit_res = "failed" => (task = "returned" /\ outcome = "edit_failed"))
    /\ [][(edit_res # "failed" /\ edit_res' = "failed") =>
            (task' = "returned" /\ msgs' = msgs)]_vars
    /\ [][edit_res = "failed" =>
            /\ queries' = queries
            /\ edits' = edits
            /\ sleeps' = sleeps
            /\ it' = it
            /\ task' = task]_vars

\* C10 witness: an edit failed after earlier iterations whose edits succeeded
C10_Witness ==
    /\ edit_res = "failed"
    /\ outcome = "edit_failed"
    /\ it > 0
    /\ ~done

\* C11: once the stop action has set the flag of a tracking view, the view's loop
\* attempts at most one further edit of the status message, wherever the loop was
\* when the flag was set, and then ends.
C11_AtMostOneEditAfterStop ==
    /\ [](stop_edits <= 1)
    /\ (stopped ~> Ended)

\* C11 witness: the flag was set while an iteration was under way; the loop made that
\* iteration's edit, slept and ended at the next loop test
C11_Witness ==
    /\ stopped
    /\ stop_edits = 1
    /\ task = "returned"
    /\ outcome = "cancelled"

\* C12 as claimed: once the stop action has set the flag, the loop never begins a new
\* sleep.
C12_NoSleepAfterStop == [][stopped => sleeps' = sleeps]_vars

\* C13 as claimed: a tracking loop ends only because the subject is done, the
\* iteration cap is reached, the stop flag was set or an edit of the status message
\* failed.
C13_FourWaysToEnd ==
    Ended => outcome \in {"done", "exhausted", "cancelled", "edit_failed"}

\* out has one entry per entry of src, in the same order, each with the season's
\* number and episode counts and with monitored = (number \in sel)
Reconciled(src, sel, out) ==
    /\ Len(out) = Len(src)
    /\ \A i \in DOMAIN src :
         /\ out[i].seasonNumber = src[i].seasonNumber
         /\ out[i].statistics = src[i].statistics
         /\ out[i].monitored <=> (src[i].seasonNumber \in sel)
         /\ DOMAIN out[i] = DOMAIN src[i]

\* C14: the season list build_monitored_seasons returns has exactly one entry per
\* entry of seasons_source, monitored exactly when the season number is selected and
\* otherwise unchanged, for every season list and every selection; the list a confirm
\* hands to the backend is that list.
C14_SeasonsReconciled ==
    /\ [](\A sel \in SUBSET (0..(MaxSeason + 1)) :
            Reconciled(seasons_source, sel,
                       build_monitored_seasons(seasons_source, sel)))
    /\ [][(kind = "wizard" /\ Submitted) =>
            \A i \in DOMAIN calls' :
               calls'[i].op \in {"update_series", "add_series"} =>
                  Reconciled(seasons_source, selected_seasons, calls'[i].seasons)]_vars

\* C14 witness: an update carried a season list in which one season is monitored and
\* another is not, and in which a flag differs from the flag of the source
C14_Witness ==
    /\ kind = "wizard"
    /\ Len(calls) >= 2
    /\ calls[2].op = "update_series"
    /\ Len(calls[2].seasons) = Len(seasons_source)
    /\ \E i, j \in DOMAIN calls[2].seasons :
         /\ calls[2].seasons[i].monitored
         /\ ~calls[2].seasons[j].monitored
         /\ ~seasons_source[i].monitored
         /\ seasons_source[j].monitored

\* C15: in every state of a series wizard the selected seasons are season numbers of
\* the wizard's seasons_source.
C15_SelectedWithinSource ==
    (kind = "wizard") => (selected_seasons \subseteq SeasonNumbers(seasons_source))

\* C15 witness: after season and quality events, some but not all seasons are selected
C15_Witness ==
    /\ kind = "wizard"
    /\ selected_quality_id # 0
    /\ selected_seasons # {}
    /\ selected_seasons # SeasonNumbers(seasons_source)
    /\ msgs = <<"quality_set">>

\* C16: the stored quality is the one of the latest quality event (unset if there was
\* none), the stored season set is the one of the latest season event (empty if there
\* was none), a quality event leaves the season set alone and a season event leaves
\* the quality alone.
C16_LastWriteWins ==
    /\ [](kind = "wizard" =>
            /\ (quality_values = <<>>) => (selected_quality_id = 0)
            /\ (quality_values # <<>>) =>
                  \E p \in Profiles : /\ quality_values = <<OptionValue(p)>>
                                      /\ selected_quality_id = p
            /\ selected_seasons =
                  {n \in 0..(MaxSeason + 1) :
                     \E k \in DOMAIN season_values : season_values[k] = str(n)})
    /\ [][msgs' = <<"quality_set">> =>
            (selected_seasons' = selected_seasons /\ season_values' = season_values)]_vars
    /\ [][msgs' = <<"seasons_selected">> =>
            (selected_quality_id' = selected_quality_id
               /\ quality_values' = quality_values)]_vars

\* C16 witness: both setters have run, the season setter last, and the stored values
\* are those of the latest events
C16_Witness ==
    /\ kind = "wizard"
    /\ quality_values = <<OptionValue(2)>>
    /\ selected_quality_id = 2
    /\ season_values = <<str(2)>>
    /\ selected_seasons = {2}
    /\ msgs = <<"seasons_selected">>

\* C17 as claimed: a confirm of a wizard for a new series whose quality is set issues
\* one add call to the backend, carrying the chosen quality and the reconciled
\* seasons, and a tracking loop follows its success.
C17_NewSeriesAddedOnce ==
    [][(kind = "wizard" /\ Submitted /\ existing_id = 0 /\ selected_quality_id # 0) =>
          /\ Len(calls') = 1
          /\ calls'[1].op = "add_series"
          /\ calls'[1].quality = selected_quality_id
          /\ Reconciled(seasons_source, selected_seasons, calls'[1].seasons)
          /\ submits' = submits + 1]_vars

\* C18: on the existing-series path, when the update succeeds, the callback reports
\* success and has attempted one search for every selected season, whatever the
\* searches answered.
C18_SearchFailuresSwallowed ==
    [][(/\ kind = "wizard"
        /\ Submitted
        /\ \E i \in DOMAIN calls' :
             calls'[i].op = "update_series" /\ calls'[i].res = "ok") =>
          /\ msgs' = <<"series_updated">>
          /\ \A sn \in selected_seasons :
               Cardinality({i \in DOMAIN calls' :
                              /\ calls'[i].op = "season_search"
                              /\ calls'[i].season = sn}) = 1]_vars

\* C18 witness: the first season search failed, a second one was attempted after it,
\* and success was reported
C18_Witness ==
    /\ kind = "wizard"
    /\ Len(calls) = 4
    /\ calls[2].op = "update_series"
    /\ calls[2].res = "ok"
    /\ calls[3].op = "season_search"
    /\ calls[3].res = "error"
    /\ calls[4].op = "season_search"
    /\ msgs = <<"series_updated">>

FetchOps == {"get_releases", "get_releases_for_episode"}

SearchOps == {"trigger_movie_search", "trigger_series_search"}

\* The callback of this step reached the release check and fetched the releases
CheckRan == Submitted /\ \E i \in DOMAIN calls' : calls'[i].op \in FetchOps

\* Some release's quality name equals the label, ignoring case
HasMatch(rels, label) == \E i \in DOMAIN rels : lower(rels[i].name) = lower(label)

\* C19: when a cached release has the expected quality label, ignoring case, the
\* release check reports success, triggers no search and offers no pick list.
C19_MatchEndsCheck ==
    [][(CheckRan /\ HasMatch(releases', expected')) =>
          /\ msgs'[Len(msgs')] = "releases_match"
          /\ \A i \in DOMAIN calls' : calls'[i].op \notin SearchOps
          /\ picker' = <<>>]_vars

\* C19 witness: the only matching release differs in case from the expected label and
\* follows a release that does not match
C19_Witness ==
    /\ expected = <<"H", "D">>
    /\ Len(releases) = 2
    /\ releases[1].name = <<"S", "D">>
    /\ releases[2].name = <<"h", "d">>
    /\ msgs = <<"tracking_started", "releases_match">>
    /\ picker = <<>>

\* C20: when no release is cached, or fetching them failed, the release check
\* triggers one search on the subject's backend, tells the user whether it could be
\* triggered, offers no pick list and raises nothing.
C20_NothingCachedTriggersSearch ==
    [][(CheckRan /\ releases' = <<>>) =>
          LET searches == {i \in DOMAIN calls' : calls'[i].op \in SearchOps}
          IN  /\ Cardinality(searches) = 1
              /\ \A i \in searches :
                   /\ calls'[i].op = IF kind = "movie" THEN "trigger_movie_search"
                                                       ELSE "trigger_series_search"
                   /\ msgs'[Len(msgs')] = IF calls'[i].res = "ok"
                                            THEN "search_triggered"
                                            ELSE "search_not_triggered"
              /\ picker' = <<>>
              /\ ~Mentions(msgs', FailureTexts)]_vars

\* C20 witness: fetching the releases of a series episode failed, the search could
\* not be triggered either, and the user was told so
C20_Witness ==
    /\ kind = "series"
    /\ Len(calls) = 4
    /\ calls[3].op = "get_releases_for_episode"
    /\ calls[3].res = "error"
    /\ calls[4].op = "trigger_series_search"
    /\ calls[4].res = "error"
    /\ msgs = <<"tracking_started", "search_not_triggered">>

\* The latest status computation found the tracked movie without a file and
\* answered the queue query with q
MovieWithoutFile(q) ==
    /\ view_kind = "movie"
    /\ obs.subject = "found"
    /\ ~obs.hasFile
    /\ obs.queue = q

\* C24: as long as the tracked movie has no file and no queue entry matches its id,
\* the status computation returns the "Queued" state with done = false, the task does
\* not end as done, and a successful edit of that iteration is followed by the sleep
\* before the next iteration.
C24_QueuedKeepsLoopActive ==
    /\ [](MovieWithoutFile("nomatch") =>
            /\ emb = "queued"
            /\ ~done
            /\ task # "raised"
            /\ outcome \notin {"done", "exception"})
    /\ [][(MovieWithoutFile("nomatch") /\ task = "edit" /\ edit_res' = "ok"
             /\ edits' # edits)
          => (task' = "sleep" /\ it' = it + 1 /\ outcome' = "running")]_vars

\* C24 witness: the third iteration in a row has rendered "Queued" for a movie
\* without a file and without a matching queue entry, and the loop sleeps again
C24_Witness ==
    /\ MovieWithoutFile("nomatch")
    /\ emb = "queued"
    /\ it = 3
    /\ task = "sleep"
    /\ outcome = "running"

\* C25 as claimed: while the tracked movie has no file but a queue entry matches its
\* id, the iteration completes normally: the status computation returns the
\* "Downloading" state with done = false and the task is not ended by it.
C25_DownloadingCompletes ==
    MovieWithoutFile("match") =>
        (task # "raised" /\ emb = "downloading" /\ ~done)

\* A confirm of the wizard of an existing series with a tier chosen
ExistingConfirmed ==
    /\ Submitted
    /\ kind = "wizard"
    /\ existing_id # 0
    /\ selected_quality_id # 0

\* C26: on the existing-series path the calls of one confirm are, in this order, the
\* load of the series, then (only after a successful load) one update carrying the
\* chosen tier and the reconciled season list, then (only after a successful update)
\* one search trigger per selected season and for no other season.
C26_ExistingPathOrder ==
    [][ExistingConfirmed =>
         LET n        == Len(calls')
             updates  == {i \in 1..n : calls'[i].op = "update_series"}
             searches == {i \in 1..n : calls'[i].op = "season_search"}
         IN  /\ n >= 1
             /\ calls'[1].op = "get_series_by_id"
             /\ \A i \in 2..n : calls'[i].op \in {"update_series", "season_search"}
             /\ updates = IF calls'[1].res = "ok" THEN {2} ELSE {}
             /\ \A i \in updates :
                  /\ calls'[i].quality = selected_quality_id
                  /\ Reconciled(seasons_source, selected_seasons, calls'[i].seasons)
             /\ \A i \in searches :
                  /\ i > 2
                  /\ calls'[2].op = "update_series"
                  /\ calls'[2].res = "ok"
                  /\ calls'[i].season \in selected_seasons
                  /\ \A j \in searches : calls'[j].season = calls'[i].season => j = i
             /\ (updates # {} /\ calls'[2].res = "ok") =>
                  {calls'[i].season : i \in searches} = selected_seasons]_vars

\* C26 witness: the series was loaded and updated, and of its two seasons only the
\* selected one was searched
C26_Witness ==
    /\ kind = "wizard"
    /\ existing_id # 0
    /\ Len(seasons_source) = 2
    /\ selected_seasons = {2}
    /\ Len(calls) = 3
    /\ calls[1].op = "get_series_by_id"
    /\ calls[2].op = "update_series"
    /\ calls[2].res = "ok"
    /\ calls[3].op = "season_search"
    /\ calls[3].season = 2

\* The latest confirm of the wizard was rejected: it issued no backend call
LastConfirmRejected == kind = "wizard" /\ confirms > 0 /\ calls = <<>>

\* C27: a confirm with the tier unset is answered with the request to choose one,
\* issues no backend call, starts no tracking and leaves the wizard, its tier, its
\* season set, its source seasons and its existing-item id as they were; a confirm
\* that follows such a rejection once a tier has been selected is not rejected: it
\* goes on to the backend call of its path with that tier.
C27_RejectedConfirmKeepsWizard ==
    /\ [][(Submitted /\ kind = "wizard" /\ selected_quality_id = 0) =>
            /\ msgs' = <<"choose_quality">>
            /\ calls' = <<>>
            /\ submits' = submits
            /\ started' = started
            /\ kind' = "wizard"
            /\ selected_quality_id' = selected_quality_id
            /\ selected_seasons' = selected_seasons
            /\ seasons_source' = seasons_source
            /\ existing_id' = existing_id]_vars
    /\ [][(Submitted /\ LastConfirmRejected /\ selected_quality_id # 0) =>
            /\ msgs' # <<"choose_quality">>
            /\ calls' # <<>>
            /\ calls'[1].op = IF existing_id # 0 THEN "get_series_by_id"
                                                 ELSE "add_series"
            /\ \A i \in DOMAIN calls' :
                 IsSubmit(calls'[i]) => calls'[i].quality = selected_quality_id]_vars

\* C27 witness: a confirm was rejected, the wizard holds a season selection, a tier
\* has been selected since and a further confirm is possible
C27_Witness ==
    /\ LastConfirmRejected
    /\ confirms < MaxConfirms
    /\ selected_quality_id # 0
    /\ selected_seasons # {}
    /\ msgs = <<"quality_set">>

\* a was aired after b, or on the same day with a higher season number, or on the
\* same day in the same season with a higher episode number
AiredAfter(a, b) ==
    LET da == int(a.airDateUtc)
        db == int(b.airDateUtc)
    IN  \/ da > db
        \/ da = db /\ KeyAfter(a, b)

\* C28 as claimed: the chosen episode is a monitored, file-absent episode of the list
\* whose air date is not in the future, and no other such episode of the list was
\* aired after it (ties broken by season number, then episode number).
C28_MostRecentlyAired ==
    episode # None =>
        LET ep == episode[1]
        IN  /\ \E i \in DOMAIN episodes : episodes[i] = ep
            /\ Candidate(ep)
            /\ \A i \in DOMAIN episodes :
                 Candidate(episodes[i]) => ~AiredAfter(episodes[i], ep)

\* A series quality selection whose add succeeded and whose tracking message was
\* sent, so that the release check ran
SeriesCheckReached ==
    /\ Submitted
    /\ kind = "series"
    /\ Len(calls') >= 2
    /\ calls'[1].op = "add_series"
    /\ calls'[1].res = "ok"
    /\ calls'[2].op = "get_episode_list"
    /\ msgs' # <<>>
    /\ msgs'[1] = "tracking_started"

\* C29: when the episode list of a newly added series could not be fetched, or holds
\* no monitored, file-absent episode with an air date that is not in the future, the
\* release check reports success and does nothing else: no cached releases are
\* fetched, no search is triggered, no pick list is shown, no failure is reported.
C29_NoEpisodeIsSatisfied ==
    [][(/\ SeriesCheckReached
        /\ \/ calls'[2].res = "error"
           \/ \A i \in DOMAIN episodes' : ~Candidate(episodes'[i]))
       => /\ msgs' = <<"tracking_started", "no_missing_episodes">>
          /\ Len(calls') = 2
          /\ \A i \in DOMAIN calls' : calls'[i].op \notin FetchOps \cup SearchOps
          /\ picker' = <<>>
          /\ episode' = None]_vars

\* C29 witness: the only episode of the new series has not aired yet, and the check
\* ended with the success report after the add and the episode list alone
C29_Witness ==
    /\ kind = "series"
    /\ Len(episodes) = 1
    /\ episodes[1].monitored
    /\ ~episodes[1].hasFile
    /\ isdigit(episodes[1].airDateUtc)
    /\ int(episodes[1].airDateUtc) > now
    /\ episode = None
    /\ Len(calls) = 2
    /\ calls[2].res = "ok"
    /\ msgs = <<"tracking_started", "no_missing_episodes">>
    /\ picker = <<>>

\* C21: when releases are cached and none matches the expected label, the release
\* check triggers no search and sends a pick list of at most 25 entries, each of them
\* the guid and indexer of one of the first 25 cached releases (or the inert
\* placeholder entry when none of those has a guid); the list is shown unless the
\* chat service rejects the message that carries it, which is reported as a failure.
C21_PickListOfFirst25 ==
    [][(CheckRan /\ releases' # <<>> /\ ~HasMatch(releases', expected')) =>
          /\ \A i \in DOMAIN calls' : calls'[i].op \notin SearchOps
          /\ IF picker' # <<>>
               THEN /\ msgs'[Len(msgs')] = "pick_release"
                    /\ Len(picker') <= 25
                    /\ \A i \in DOMAIN picker' :
                         \/ picker'[i] = <<>> /\ Len(picker') = 1
                         \/ \E j \in DOMAIN releases' :
                              /\ j <= 25
                              /\ picker'[i] = ReleaseValue(releases'[j])
                              /\ releases'[j].guid # <<>>
               ELSE msgs'[Len(msgs')] \in FailureTexts]_vars

\* C21 witness: 26 releases are cached, none of the expected quality, and the pick
\* list holds the first 25 of them
C21_Witness ==
    /\ Len(releases) = 26
    /\ ~HasMatch(releases, expected)
    /\ Len(picker) = 25
    /\ picker[25] = ReleaseValue(releases[25])
    /\ msgs[Len(msgs)] = "pick_release"
    /\ \A i \in DOMAIN calls : calls[i].op \notin SearchOps

\* A pick of a release in the pick list: the select's value is not the placeholder's
PickRan == confirms' = confirms /\ picker # <<>> /\ picked' # <<>>

\* C22: a pick of a release issues one grab; when the grab succeeds no search is
\* triggered and the user is told it was grabbed; when it fails one search is
\* triggered on the backend of the pick list's kind, and the user is told to retry
\* when the trigger succeeded and told of a definitive failure when it failed too.
\* One message is sent per pick.
C22_GrabFailureFallsBack ==
    [][PickRan =>
         LET search == IF kind = "movie" THEN "trigger_movie_search"
                                         ELSE "trigger_series_search"
         IN  /\ calls' # <<>>
             /\ calls'[1].op = "post_release"
             /\ Len(msgs') = 1
             /\ IF calls'[1].res = "ok"
                  THEN /\ Len(calls') = 1
                       /\ msgs' = <<"grabbed">>
                  ELSE /\ Len(calls') = 2
                       /\ calls'[2].op = search
                       /\ msgs' = IF calls'[2].res = "ok" THEN <<"search_retry">>
                                                          ELSE <<"grab_failed">>]_vars

\* C22 witness: a release of a series pick list was picked, the grab failed, the
\* series search was triggered and the user was told to retry
C22_Witness ==
    /\ kind = "series"
    /\ picked # <<>>
    /\ Len(calls) = 2
    /\ calls[1].op = "post_release"
    /\ calls[1].res = "error"
    /\ calls[2].op = "trigger_series_search"
    /\ calls[2].res = "ok"
    /\ msgs = <<"search_retry">>

\* The number of cells of the bar that are c
Cells(c) == Cardinality({i \in DOMAIN bar : bar[i] = c})

\* C30: the bar has exactly width cells.  For a known percent p it is `filled` filled
\* cells followed by empty cells, where filled is the integer nearest to
\* clamp(p, 0, 100) / 100 * width (the even one when two are equally near, as round
\* does): none for p <= 0, all for p >= 100, 11 of 20 for p = 57.  For an unknown
\* percent it is width placeholder cells, which are neither filled nor empty cells.
C30_BarHasWidthCells ==
    bar # <<>> =>
      /\ Len(bar) = bar_width
      /\ IF bar_pct = None
           THEN /\ \A i \in DOMAIN bar : bar[i] = UnknownCell
                /\ UnknownCell \notin {FilledCell, EmptyCell}
           ELSE LET p      == bar_pct[1]
                    c      == IF p < 0 THEN 0 ELSE IF p > 1000 THEN 1000 ELSE p
                    filled == Cells(FilledCell)
                    off    == 1000 * filled - c * bar_width
                IN  /\ \A i \in DOMAIN bar :
                         bar[i] = IF i <= filled THEN FilledCell ELSE EmptyCell
                    /\ FilledCell # EmptyCell
                    /\ off \in -500..500
                    /\ off \in {-500, 500} => filled % 2 = 0
                    /\ p <= 0 => filled = 0
                    /\ p >= 1000 => filled = bar_width
                    /\ (p = 570 /\ bar_width = 20) => filled = 11

\* C30 witness: the bar of 57 percent and width 20 has been drawn with 11 filled
\* cells
C30_Witness ==
    /\ bar_pct = <<570>>
    /\ bar_width = 20
    /\ Len(bar) = 20
    /\ Cells(FilledCell) = 11
    /\ Cells(EmptyCell) = 9

\* The candidates of `results` that the command asked the backends about
Checked == {i \in DOMAIN results : i <= 10}

\* The option the select holds for the i-th candidate is marked as already held
Flagged(i) ==
    \E j \in DOMAIN options :
      /\ options[j].tvdbId = results[i].tvdbId
      /\ options[j].tmdbId = results[i].tmdbId
      /\ options[j].flagged

RaisedChecks == {i \in Checked : CheckRaised(IF cmd = "movie_add" THEN "movie"
                                                                  ELSE "series",
                                             results[i])}

\* The ids of kind f ("tvdbId" or "tmdbId") of the checked candidates for which
\* the check `answer` ("held" or "plex") said yes
Found(answer, f) ==
    {results[i][f] : i \in {j \in Checked : /\ results[j][answer] = "yes"
                                             /\ results[j][f] # 0}}

\* C31: when a search has found candidates, an existence check that raises counts
\* as "not found" for that check alone.  The sets of held ids are exactly the ids for
\* which a check answered yes, whatever the other checks of the same or of other
\* candidates did; the command reaches the send of its select, which the user sees
\* (until a pick is answered) when the send is accepted; and "Search failed" is
\* reported only when that send itself is rejected.
C31_CheckFailureIsNotFound ==
    (cmd # "none" /\ results # <<>>) =>
        /\ select_send \in {"ok", "rejected"}
        /\ (select_send = "ok" /\ chosen = 0) => msgs = <<"pick_result">>
        /\ msgs = <<"search_failed">> => select_send = "rejected"
        /\ coll.tmdb = Found("held", "tmdbId")
        /\ lib.tmdb = Found("plex", "tmdbId")
        /\ cmd = "series_add" => /\ coll.tvdb = Found("held", "tvdbId")
                                 /\ lib.tvdb = Found("plex", "tvdbId")

\* C31 happens: the checks of the first candidate raised, the second candidate was
\* still found in the collection, and the select was shown
C31_Witness ==
    /\ cmd = "movie_add"
    /\ Len(results) = 2
    /\ 1 \in RaisedChecks
    /\ results[1].held = "error"
    /\ results[1].plex = "error"
    /\ results[2].tmdbId # 0
    /\ results[2].held = "yes"
    /\ results[2].tmdbId \in coll.tmdb
    /\ select_send = "ok"
    /\ Len(options) = 2

\* The releases the pick list was built from that carry a guid
WithGuid == {i \in DOMAIN Top(releases) : Top(releases)[i].guid # <<>>}

\* The pick list holds only the option "No releases available"
OnlyPlaceholder == picker = << <<>> >>

\* C32: no selectable entry of the pick list has an empty guid: every entry other
\* than the placeholder is the value of a cached release with a non-empty guid and
\* starts with that guid.  When no cached release has a guid the list is the
\* placeholder alone, and picking the placeholder answers "No releases to choose
\* from." without any backend call.
C32_NoEmptyGuidEntry ==
    picker # <<>> =>
        /\ \A i \in DOMAIN picker :
             picker[i] # <<>> =>
               /\ split(picker[i])[1] # <<>>
               /\ \E j \in WithGuid :
                    /\ picker[i] = ReleaseValue(Top(releases)[j])
                    /\ split(picker[i])[1] = Top(releases)[j].guid
        /\ \A i \in DOMAIN picker : picker[i] = <<>> => OnlyPlaceholder
        /\ WithGuid = {} => OnlyPlaceholder
        /\ (OnlyPlaceholder /\ msgs # <<"tracking_started", "pick_release">>) =>
             /\ msgs = <<"no_releases">>
             /\ calls = <<>>
        /\ \A c \in DOMAIN calls :
             calls[c].op = "post_release" => calls[c].guid # <<>>

\* C32 happens: the only cached release has no guid, the list was the placeholder,
\* and the placeholder was picked
C32_Witness ==
    /\ Len(releases) = 1
    /\ releases[1].guid = <<>>
    /\ OnlyPlaceholder
    /\ picked = <<>>
    /\ msgs = <<"no_releases">>
    /\ calls = <<>>

\* The latest status computation did not find the tracked item in its collection
NotFound == obs.subject = "none"

\* C38: a status computation that does not find the tracked item returns done = true
\* with the "not found" status; from then on the loop makes no status query and no
\* sleep, does not advance `it`, and its only edit attempt is the one of that
\* iteration, after which the task has returned.
C38_NotFoundEndsLoop ==
    /\ [](NotFound => /\ done
                      /\ emb \in {"not_found", "text_not_found"}
                      /\ task \in {"edit", "returned"}
                      /\ outcome \in {"running", "done", "edit_failed"})
    /\ [][NotFound => /\ queries' = queries
                      /\ sleeps' = sleeps
                      /\ it' = it
                      /\ (edits' # edits =>
                            /\ task = "edit"
                            /\ edits' = edits + 1
                            /\ task' = "returned")]_vars

\* C38 happens: after two iterations that found the series, the third did not find
\* it; its edit was attempted and the task has ended
C38_Witness ==
    /\ view_kind = "series"
    /\ NotFound
    /\ it = 2
    /\ queries = 3
    /\ edits = 3
    /\ sleeps = 2
    /\ task = "returned"
    /\ outcome = "done"

\* C35 as claimed: a submission that is reported as failed ("Add failed" / "Failed to
\* add/update the series") made no add / update call that succeeded and started no
\* tracking loop.
C35_FailureReportMeansFailedAdd ==
    [][(Submitted /\ Mentions(msgs', FailureTexts)) =>
          /\ ~SubmitCallEnded("ok")
          /\ started' = started]_vars

\* The option of the select of /movie_add whose tmdb id is id is marked already-held
FlaggedMovie(id) ==
    \E j \in DOMAIN options : options[j].tmdbId = id /\ options[j].flagged

\* A pick from the select of /movie_add happens in this step (the only operation on
\* a select that has been shown)
MoviePicked == cmd = "movie_add" /\ select_send = "ok" /\ cmd' = cmd

\* C36: picking a movie that the select marks as already held answers "That movie is
\* already in Radarr.", opens no quality picker, and makes no backend call, whatever
\* was picked from the select before.
C36_FlaggedMovieNotSubmitted ==
    [][(MoviePicked /\ FlaggedMovie(chosen')) =>
          /\ msgs' = <<"already_in_radarr">>
          /\ kind' = kind
          /\ quality_values' = quality_values
          /\ calls' = <<>>
          /\ submits' = submits
          /\ started' = started]_vars

\* C36 happens: after a pick of an unmarked movie had opened its quality picker, the
\* marked movie of the same select was picked and answered as already held
C36_Witness ==
    /\ cmd = "movie_add"
    /\ Len(options) = 2
    /\ chosen # 0
    /\ FlaggedMovie(chosen)
    /\ kind = "movie"
    /\ msgs = <<"already_in_radarr">>
    /\ calls = <<>>

\* The header an _rpc call puts on its first request: the stored session id
StoredHeader == IF Truthy(_sid) THEN _sid ELSE None

\* C40: an _rpc call sends at most two requests.  It sends a second one only after a
\* 409, having stored the session id that response carried, and with that id as its
\* header; a 409 that carries an id is always followed by that one retry; the answer
\* to the retry ends the call, as an error when it is a 409 again.  The first
\* request of every call carries the session id stored by then, and the stored id
\* changes only by a 409.
C40_AtMostOneRetry ==
    /\ [](/\ Len(requests) <= 2
          /\ rpc_calls > 0 => Len(requests) >= 1
          /\ Len(requests) = 2 =>
               /\ requests[1].status = Conflict
               /\ _sid = requests[1].carried
               /\ requests[2].header = requests[1].carried
               /\ requests[2].status = Conflict => rpc_result = "error"
               /\ rpc_result = Outcome(requests[2])
          /\ Len(requests) = 1 =>
               /\ requests[1].status = Conflict => requests[1].carried = None
               /\ requests[1].status # Conflict =>
                    rpc_result = Outcome(requests[1]))
    /\ [][rpc_calls' # rpc_calls =>
            /\ requests'[1].header = StoredHeader
            /\ _sid' # _sid => /\ requests'[1].status = Conflict
                               /\ _sid' = requests'[1].carried
            /\ requests'[1].status = Conflict => _sid' = requests'[1].carried]_vars

\* C40 happens: a call was answered 409 with a session id and retried with it, the
\* retry was answered 409 again and the call raised; the call before it had stored
\* another id, which the first request carried
C40_Witness ==
    /\ rpc_calls = 2
    /\ Len(requests) = 2
    /\ requests[1].header = <<"a">>
    /\ requests[1].status = Conflict
    /\ requests[1].carried = <<"b">>
    /\ requests[2].header = <<"b">>
    /\ requests[2].status = Conflict
    /\ _sid = <<"b">>
    /\ rpc_result = "error"

\* C34: a tracking view never has a running task beside the one view._task refers
\* to: a call of start_auto_update on a view whose task has not finished changes
\* nothing of that task and creates none, and a call on a view without a running
\* task creates exactly the one task the view then refers to.
C34_AtMostOneTask ==
    /\ [](orphans = 0)
    /\ [][(task \in Running /\ message_id' # message_id) =>
            /\ task' = task
            /\ it' = it
            /\ outcome' = outcome
            /\ queries' = queries
            /\ edits' = edits
            /\ sleeps' = sleeps]_vars
    /\ [][(task \notin Running /\ task' \in Running) =>
            (task' = "test" /\ it' = 0 /\ orphans' = orphans)]_vars

\* C34 happens: start_auto_update was called again, with another message, on a view
\* whose task is in its third iteration: the view refers to the new message and the
\* task goes on with its counters
C34_Witness ==
    /\ message_id = 2
    /\ task = "edit"
    /\ it = 2
    /\ queries = 3
    /\ edits = 2
    /\ sleeps = 2
    /\ ~stopped
    /\ orphans = 0

\* C37: a "Refresh now" makes one status computation and at most one edit of the
\* tracked message (none when the view knows no message yet), and changes nothing of
\* the view: the iteration counter, the cancellation flag, the task and its
\* position, the message id and the loop's own counters are as before.  With any
\* number of refreshes the loop still makes at most max_iters status computations.
C37_RefreshLeavesLoopAlone ==
    /\ [][refresh' # refresh =>
            /\ refresh'.queries = 1
            /\ refresh'.edits \in {0, 1}
            /\ refresh'.edits = 1 => message_id # 0
            /\ it' = it
            /\ stopped' = stopped
            /\ task' = task
            /\ message_id' = message_id
            /\ viewVars' = viewVars
            /\ orphans' = orphans
            /\ disabled' = disabled]_vars
    /\ [](/\ refresh.queries <= 1
          /\ refresh.edits <= refresh.queries
          /\ it \in 0..max_iters
          /\ queries <= max_iters
          /\ edits <= max_iters)

\* C37 happens: the tracked message was refreshed by hand while the task slept after
\* its first iteration, and the task is still there with its counter
C37_Witness ==
    /\ refresh = Refreshed(1, 1)
    /\ message_id = 1
    /\ task = "sleep"
    /\ it = 1
    /\ queries = 1
    /\ edits = 1
    /\ ~stopped

\* C39: the cancellation flag is never cleared: no step of the task, no refresh, no
\* call of start_auto_update and no stop takes it from set to unset.  A stop sets it
\* and disables the buttons; a stop on a view that is already stopped, whether its
\* task still runs or has ended, changes nothing of the view.
C39_StopIsMonotonicAndIdempotent ==
    /\ [][stopped => stopped']_vars
    /\ [][disabled => disabled']_vars
    /\ [][stops' # stops => (stopped' /\ disabled')]_vars
    /\ [][(stops' # stops /\ stopped) =>
            /\ viewVars' = viewVars
            /\ disabled' = disabled
            /\ refresh' = refresh
            /\ orphans' = orphans]_vars
    /\ [](stops > 0 <=> stopped)
    /\ [](stopped <=> disabled)

\* C39 happens: the view was stopped, its task ended at its next test, the message
\* was refreshed by hand, start_auto_update was called again and its new task ended
\* at once, and a second stop was pressed: the flag is still set
C39_Witness ==
    /\ stops = 2
    /\ stopped
    /\ disabled
    /\ message_id = 2
    /\ refresh = Refreshed(1, 1)
    /\ task = "returned"
    /\ outcome = "cancelled"
    /\ it = 0
    /\ queries = 0

\* C33: with two tracking views running at the same time, every step (a step of
\* either task, a stop of either view) changes the fields of at most one view: the
\* iteration counter, the cancellation flag, the done status, the message id and the
\* task of the other view are as before.  The views keep different messages, and a
\* loop edits no message but the one of its own view.
C33_ViewsAreIndependent ==
    /\ [][\A v \in DOMAIN views :
            views'[v] # views[v] =>
              \A u \in DOMAIN views \ {v} :
                /\ views'[u] = views[u]
                /\ views'[u].it = views[u].it
                /\ views'[u].stopped = views[u].stopped
                /\ views'[u].done = views[u].done
                /\ views'[u].message_id = views[u].message_id]_vars
    /\ [](\A v \in DOMAIN views :
            /\ views[v].edited \in {0, views[v].message_id}
            /\ \A u \in DOMAIN views \ {v} :
                 /\ views[u].message_id # views[v].message_id
                 /\ views[v].edited # views[u].message_id)

\* C33 happens: the movie view was stopped during its second iteration and its task
\* has ended, while the task of the series view is in its fourth iteration, not
\* stopped, and has edited its own message
C33_Witness ==
    /\ Len(views) = 2
    /\ views[1].stopped
    /\ views[1].task = "returned"
    /\ views[1].it = 2
    /\ views[1].edited = 1
    /\ ~views[2].stopped
    /\ views[2].task = "edit"
    /\ views[2].it = 3
    /\ views[2].edited = 2

=============================================================================
